---- MODULE Spec2Model ----
(***************************************************************************)
(* Event unification pipeline of Artify (backend/core): field              *)
(* normalization, categorization and duplicate detection / merge.          *)
(*                                                                         *)
(* Conventions of the model                                                *)
(*   - Python str values are TLA+ strings; Len, SubSeq and \o act on them  *)
(*     character by character, as Python's len, slicing and + do.          *)
(*   - None of an Optional[str] is the string NONE; a str is falsy when it *)
(*     is "" or NONE (Truthy).                                             *)
(*   - None of an Optional number is the empty set NoNum, the number n is  *)
(*     {n}; prices are counted in cents (10.0 is 1000, 12.5 is 1250).      *)
(*   - A call is one step: Init draws the arguments, the action applies    *)
(*     the function and stores what it returns in ret.                     *)
(*   - The database (backend/core/db.py) and the run of the ingestion      *)
(*     pipeline (backend/ingest.py) are state: the rows of the two tables  *)
(*     and the pipeline object with the position of its run.               *)
(***************************************************************************)
EXTENDS Integers, Sequences, FiniteSets, TLC

VARIABLES
    op,     \* the call in progress / finished: "call_<f>" before, "<f>" after
    args,   \* the arguments of the call (a record)
    ret,    \* the value the call returned (meaningful once op = "<f>")
    events_table,   \* the rows of the table events of the database, in rowid order
    scrape_logs,    \* the rows of the table scrape_logs
    pipeline        \* the IngestionPipeline object and the position of its run(),
                    \* NONE when there is none

vars == <<op, args, ret, events_table, scrape_logs, pipeline>>

\* what a call of a function of backend/core that opens no database leaves alone
pipeline_vars == <<events_table, scrape_logs, pipeline>>

(***************************************************************************)
(* Python values                                                           *)
(***************************************************************************)
NONE == "<None>"
NoNum == {}
Num(n) == {n}
Val(o) == CHOOSE n \in o : TRUE

Truthy(s) == s # "" /\ s # NONE

\* no database is open and no pipeline exists
NoDatabase == events_table = <<>> /\ scrape_logs = <<>> /\ pipeline = NONE
TruthyNum(o) == o # NoNum /\ o # Num(0)

(***************************************************************************)
(* str helpers: in, lower(), strip(), split()                              *)
(***************************************************************************)
CharAt(s, i) == SubSeq(s, i, i)

\* Python: pat in text
Contains(text, pat) ==
    \E i \in 1..(Len(text) - Len(pat) + 1) : SubSeq(text, i, i + Len(pat) - 1) = pat

UpperChars == <<"A","B","C","D","E","F","G","H","I","J","K","L","M","N","O","P","Q",
                "R","S","T","U","V","W","X","Y","Z","É","È","À","Â","Ê","Î","Ô","Û","Ç">>
LowerChars == <<"a","b","c","d","e","f","g","h","i","j","k","l","m","n","o","p","q",
                "r","s","t","u","v","w","x","y","z","é","è","à","â","ê","î","ô","û","ç">>

LowerChar(c) ==
    IF \E k \in 1..Len(UpperChars) : UpperChars[k] = c
    THEN LowerChars[CHOOSE k \in 1..Len(UpperChars) : UpperChars[k] = c]
    ELSE c

RECURSIVE Lower(_)
Lower(s) == IF s = "" THEN "" ELSE LowerChar(CharAt(s, 1)) \o Lower(SubSeq(s, 2, Len(s)))

\* Python: x in q, for a list q
InSeq(x, q) == \E k \in 1..Len(q) : q[k] = x

IsSpace(c) == c = " "
IsDigit(c) == c \in {"0","1","2","3","4","5","6","7","8","9"}

RECURSIVE LStrip(_)
LStrip(s) == IF s # "" /\ IsSpace(CharAt(s, 1)) THEN LStrip(SubSeq(s, 2, Len(s))) ELSE s
RECURSIVE RStrip(_)
RStrip(s) ==
    IF s # "" /\ IsSpace(CharAt(s, Len(s))) THEN RStrip(SubSeq(s, 1, Len(s) - 1)) ELSE s
Strip(s) == RStrip(LStrip(s))

\* ' '.join(s.split()): whitespace runs become one space, none at either end
RECURSIVE JoinSplit(_)
JoinSplit(s) ==
    LET t == LStrip(s) IN
    IF t = "" THEN ""
    ELSE LET n == CHOOSE k \in 1..Len(t) :
                      /\ \A i \in 1..k : ~IsSpace(CharAt(t, i))
                      /\ (k = Len(t) \/ IsSpace(CharAt(t, k + 1)))
             rest == JoinSplit(SubSeq(t, n + 1, Len(t)))
         IN  IF rest = "" THEN SubSeq(t, 1, n) ELSE SubSeq(t, 1, n) \o " " \o rest

(***************************************************************************)
(* backend/core/normalization.py                                           *)
(***************************************************************************)

\* normalize_text: NFKC leaves the characters of the model unchanged
normalize_text(text) == IF ~Truthy(text) THEN "" ELSE Strip(JoinSplit(text))

free_patterns == <<"gratuit", "free", "entrée libre", "libre", "0€", "0 €">>

DigitVal(c) == CHOOSE d \in 0..9 : CharAt("0123456789", d + 1) = c

\* int() of a string of decimal digits
RECURSIVE IntOf(_)
IntOf(s) ==
    IF s = "" THEN 0
    ELSE IntOf(SubSeq(s, 1, Len(s) - 1)) * 10 + DigitVal(CharAt(s, Len(s)))

\* \d+ is greedy: the index of the last digit of the run that starts at i
RECURSIVE DigitsEnd(_, _)
DigitsEnd(s, i) ==
    IF i < Len(s) /\ IsDigit(CharAt(s, i + 1)) THEN DigitsEnd(s, i + 1) ELSE i

\* \s* is greedy: the index of the last space of the run that starts after i
RECURSIVE SpacesEnd(_, _)
SpacesEnd(s, i) ==
    IF i < Len(s) /\ IsSpace(CharAt(s, i + 1)) THEN SpacesEnd(s, i + 1) ELSE i

\* One match of (\d+(?:[.,]\d{2})?)\s*(?:€|eur|euros?)? that starts at the
\* digit s[i]: the float of group 1 (in cents) and the index the match ends at.
PriceMatch(s, i) ==
    LET j == DigitsEnd(s, i)
        frac == /\ j + 3 <= Len(s)
                /\ CharAt(s, j + 1) \in {".", ","}
                /\ IsDigit(CharAt(s, j + 2))
                /\ IsDigit(CharAt(s, j + 3))
        numEnd == IF frac THEN j + 3 ELSE j
        cents == IntOf(SubSeq(s, i, j)) * 100
                 + (IF frac THEN IntOf(SubSeq(s, j + 2, j + 3)) ELSE 0)
        ws == SpacesEnd(s, numEnd)
        cur == IF ws + 1 <= Len(s) /\ SubSeq(s, ws + 1, ws + 1) = "€" THEN ws + 1
               ELSE IF ws + 3 <= Len(s) /\ SubSeq(s, ws + 1, ws + 3) = "eur" THEN ws + 3
               ELSE ws
    IN  [value |-> cents, end |-> cur]

\* re.findall: the matches from left to right, each search resuming where the
\* previous match ended
RECURSIVE FindPrices(_, _)
FindPrices(s, i) ==
    IF i > Len(s) THEN <<>>
    ELSE IF ~IsDigit(CharAt(s, i)) THEN FindPrices(s, i + 1)
    ELSE LET m == PriceMatch(s, i) IN <<m.value>> \o FindPrices(s, m.end + 1)

SeqMin(q) == CHOOSE x \in {q[k] : k \in 1..Len(q)} : \A k \in 1..Len(q) : x <= q[k]
SeqMax(q) == CHOOSE x \in {q[k] : k \in 1..Len(q)} : \A k \in 1..Len(q) : x >= q[k]

PriceResult(from, to, free) == [price_from |-> from, price_to |-> to, is_free |-> free]

\* parse_price(price_text) -> (price_from, price_to, is_free)
parse_price(price_text) ==
    IF ~Truthy(price_text) THEN PriceResult(0, NoNum, FALSE)
    ELSE LET text == Strip(Lower(price_text)) IN
         IF \E k \in 1..Len(free_patterns) : Contains(text, free_patterns[k])
         THEN PriceResult(0, NoNum, TRUE)
         ELSE LET prices == FindPrices(text, 1) IN
              IF prices = <<>> THEN PriceResult(0, NoNum, FALSE)
              ELSE IF Len(prices) = 1
                   THEN PriceResult(prices[1], NoNum, prices[1] = 0)
                   ELSE PriceResult(SeqMin(prices), Num(SeqMax(prices)), SeqMin(prices) = 0)

\* normalize_event, "Parse price": the adapter's numbers when it gave a
\* price_from, the parsed price_text otherwise
EventPrice(scraped) ==
    IF scraped.price_from # NoNum
    THEN PriceResult(Val(scraped.price_from), scraped.price_to,
                     scraped.is_free \/ Val(scraped.price_from) = 0)
    ELSE parse_price(scraped.price_text)

\* str(n) of a natural number
RECURSIVE DecStr(_)
DecStr(n) ==
    IF n < 10 THEN CharAt("0123456789", n + 1)
    ELSE DecStr(n \div 10) \o CharAt("0123456789", (n % 10) + 1)

\* s.zfill(2)
ZFill2(s) == IF Len(s) < 2 THEN "0" \o s ELSE s

\* f"{h:02d}"
Fmt02d(h) == ZFill2(DecStr(h))

AllDigits(s) == \A i \in 1..Len(s) : IsDigit(CharAt(s, i))

StartsWith(s, prefix) == Len(s) >= Len(prefix) /\ SubSeq(s, 1, Len(prefix)) = prefix

\* the alternatives of ^(à|a|at|from|de|dès)\s* in the order the regex tries them
time_prefixes == <<"à", "a", "at", "from", "de", "dès">>

\* re.sub(r'^(à|a|at|from|de|dès)\s*', '', time_str): \s* matches the empty
\* string, so the first alternative the text starts with is the one removed
RemovePrefix(time_str) ==
    LET hits == {k \in 1..Len(time_prefixes) : StartsWith(time_str, time_prefixes[k])} IN
    IF hits = {} THEN time_str
    ELSE LET k == CHOOSE x \in hits : \A y \in hits : x <= y
         IN  LStrip(SubSeq(time_str, Len(time_prefixes[k]) + 1, Len(time_str)))

\* _convert_12h(hour, ampm)
convert_12h(hour, ampm) ==
    LET h0 == IntOf(hour)
        h == IF ampm = "pm" /\ h0 # 12 THEN h0 + 12
             ELSE IF ampm = "am" /\ h0 = 12 THEN 0
             ELSE h0
    IN  Fmt02d(h) \o ":00"

\* _convert_12h_full(hour, minute, ampm)
convert_12h_full(hour, minute, ampm) ==
    LET h0 == IntOf(hour)
        h == IF ampm = "pm" /\ h0 # 12 THEN h0 + 12
             ELSE IF ampm = "am" /\ h0 = 12 THEN 0
             ELSE h0
    IN  Fmt02d(h) \o ":" \o minute

\* normalize_time(time_str) -> "HH:MM" or None.  Every pattern starts with
\* ^(\d{1,2}) followed by a character that is not a digit, so group 1 is the
\* whole run of leading digits and that run has one or two digits.
normalize_time(time_str) ==
    IF ~Truthy(time_str) THEN NONE
    ELSE LET t == RemovePrefix(Strip(Lower(time_str)))
             n == IF t # "" /\ IsDigit(CharAt(t, 1)) THEN DigitsEnd(t, 1) ELSE 0
             hour == SubSeq(t, 1, n)
             rest == SubSeq(t, n + 1, Len(t))
             minute == SubSeq(rest, 2, 3)
             hasMinute == Len(rest) >= 3 /\ AllDigits(minute)
             tail == LStrip(SubSeq(rest, 4, Len(rest)))
         IN  IF n \notin {1, 2} THEN NONE
             ELSE IF Len(rest) = 3 /\ CharAt(rest, 1) \in {"h", ":"} /\ hasMinute
                  THEN ZFill2(hour) \o ":" \o minute
             ELSE IF rest = "h" THEN ZFill2(hour) \o ":00"
             ELSE IF /\ Len(rest) = 6 /\ CharAt(rest, 1) = ":" /\ hasMinute
                     /\ CharAt(rest, 4) = ":" /\ AllDigits(SubSeq(rest, 5, 6))
                  THEN ZFill2(hour) \o ":" \o minute
             ELSE IF LStrip(rest) \in {"am", "pm"} THEN convert_12h(hour, LStrip(rest))
             ELSE IF CharAt(rest, 1) = ":" /\ hasMinute /\ tail \in {"am", "pm"}
                  THEN convert_12h_full(hour, minute, tail)
             ELSE NONE

\* the hour get_time_of_day reads: int(normalized.split(':')[0])
HourOf(normalized) ==
    IntOf(SubSeq(normalized, 1,
                 (CHOOSE i \in 1..Len(normalized) :
                      /\ CharAt(normalized, i) = ":"
                      /\ \A j \in 1..(i - 1) : CharAt(normalized, j) # ":") - 1))

get_time_of_day_midnight(time_str) ==
    IF ~Truthy(time_str) THEN "soir"
    ELSE LET normalized == normalize_time(time_str) IN
         IF ~Truthy(normalized) THEN "soir"
         ELSE LET hour == HourOf(normalized) IN
              IF 6 <= hour /\ hour < 12 THEN "matin"
              ELSE IF 12 <= hour /\ hour < 18 THEN "apres_midi"
              ELSE IF 18 <= hour /\ hour < 24 THEN "soir"
              ELSE "nuit"

\* get_time_of_day(time_str): the TimeOfDay value
get_time_of_day(time_str) ==
    IF ~Truthy(time_str) THEN "soir"
    ELSE LET normalized == normalize_time(time_str) IN
         IF ~Truthy(normalized) THEN "soir"
         ELSE LET hour == HourOf(normalized) IN
              IF 6 <= hour /\ hour < 12 THEN "matin"
              ELSE IF 12 <= hour /\ hour < 18 THEN "apres_midi"
              ELSE IF 18 <= hour /\ hour < 23 THEN "soir"
              ELSE "nuit"

\* min of a non-empty set of indexes: re.search reports the leftmost match
Leftmost(hits) == CHOOSE i \in hits : \A j \in hits : i <= j

\* group(1) of re.search(r'750(\d{2})', address), "" when nothing matches
PostalCodeGroup(address) ==
    LET hits == {i \in 1..(Len(address) - 4) :
                     /\ SubSeq(address, i, i + 2) = "750"
                     /\ AllDigits(SubSeq(address, i + 3, i + 4))} IN
    IF hits = {} THEN ""
    ELSE SubSeq(address, Leftmost(hits) + 3, Leftmost(hits) + 4)

\* the characters the suffix (?:e|ème|eme|er|è) can start with, under
\* re.IGNORECASE; the alternative 'e' matches whenever 'ème', 'eme' or 'er' do
OrdinalStart(c) == c \in {"e", "E", "è", "È"}

\* group(1) of re.search(r'(\d{1,2})(?:e|ème|eme|er|è)\s*(?:arr|arrondissement)?',
\* address, re.IGNORECASE): at the leftmost digit that starts a match, two
\* digits when the suffix follows them, one digit when it follows that one
OrdinalGroup(address) ==
    LET two(i) == /\ i + 2 <= Len(address)
                  /\ AllDigits(SubSeq(address, i, i + 1))
                  /\ OrdinalStart(CharAt(address, i + 2))
        one(i) == /\ i + 1 <= Len(address)
                  /\ IsDigit(CharAt(address, i))
                  /\ OrdinalStart(CharAt(address, i + 1))
        hits == {i \in 1..Len(address) : two(i) \/ one(i)}
    IN  IF hits = {} THEN ""
        ELSE IF two(Leftmost(hits)) THEN SubSeq(address, Leftmost(hits), Leftmost(hits) + 1)
        ELSE SubSeq(address, Leftmost(hits), Leftmost(hits))

\* group(1) of re.search(r'Paris\s*(\d{1,2})', address, re.IGNORECASE)
CityGroup(address) ==
    LET low == Lower(address)
        digitAt(i) == LET d == SpacesEnd(low, i + 4) + 1 IN
                      IF d <= Len(low) /\ IsDigit(CharAt(low, d)) THEN d ELSE 0
        hits == {i \in 1..(Len(low) - 4) :
                     SubSeq(low, i, i + 4) = "paris" /\ digitAt(i) # 0}
    IN  IF hits = {} THEN ""
        ELSE LET d == digitAt(Leftmost(hits)) IN
             IF d < Len(low) /\ IsDigit(CharAt(low, d + 1))
             THEN SubSeq(low, d, d + 1) ELSE SubSeq(low, d, d)

\* for pattern in patterns: the first pattern whose leftmost match holds a
\* number in 1..20 gives the result; a pattern whose match is out of range is
\* left for the next pattern
RECURSIVE FirstInRange(_)
FirstInRange(groups) ==
    IF groups = <<>> THEN NoNum
    ELSE IF groups[1] # "" /\ 1 <= IntOf(groups[1]) /\ IntOf(groups[1]) <= 20
         THEN Num(IntOf(groups[1]))
         ELSE FirstInRange(Tail(groups))

\* extract_arrondissement(address) -> Optional[int]
extract_arrondissement(address) ==
    IF ~Truthy(address) THEN NoNum
    ELSE FirstInRange(<<PostalCodeGroup(address), OrdinalGroup(address), CityGroup(address)>>)

\* normalize_address(address)
normalize_address(address) ==
    IF ~Truthy(address) THEN ""
    ELSE LET text == normalize_text(address) IN
         IF extract_arrondissement(text) # NoNum /\ ~Contains(Lower(text), "paris")
         THEN text \o ", Paris" ELSE text

\* s.replace(old, new): the occurrences of old from left to right, none
\* overlapping the one before
RECURSIVE PyReplace(_, _, _)
PyReplace(s, old, new) ==
    LET hits == {i \in 1..(Len(s) - Len(old) + 1) : SubSeq(s, i, i + Len(old) - 1) = old} IN
    IF hits = {} THEN s
    ELSE LET i == CHOOSE x \in hits : \A y \in hits : x <= y IN
         SubSeq(s, 1, i - 1) \o new \o PyReplace(SubSeq(s, i + Len(old), Len(s)), old, new)

formats == <<"%Y-%m-%d", "%d/%m/%Y", "%d-%m-%Y", "%d %B %Y", "%d %b %Y", "%d %B",
             "%A %d %B %Y", "%Y-%m-%dT%H:%M:%S", "%Y-%m-%dT%H:%M:%S.%fZ",
             "%Y-%m-%dT%H:%M:%SZ">>

\* the items of the two dictionaries in their order, each English name
\* already lowered (en.lower())
french_months == <<
    <<"janvier", "january">>, <<"février", "february">>, <<"mars", "march">>,
    <<"avril", "april">>, <<"mai", "may">>, <<"juin", "june">>,
    <<"juillet", "july">>, <<"août", "august">>, <<"septembre", "september">>,
    <<"octobre", "october">>, <<"novembre", "november">>, <<"décembre", "december">>,
    <<"jan", "jan">>, <<"fév", "feb">>, <<"fev", "feb">>, <<"mar", "mar">>,
    <<"avr", "apr">>, <<"juil", "jul">>, <<"aoû", "aug">>, <<"aou", "aug">>,
    <<"sep", "sep">>, <<"oct", "oct">>, <<"nov", "nov">>, <<"déc", "dec">>,
    <<"dec", "dec">> >>

french_days == <<
    <<"lundi", "monday">>, <<"mardi", "tuesday">>, <<"mercredi", "wednesday">>,
    <<"jeudi", "thursday">>, <<"vendredi", "friday">>, <<"samedi", "saturday">>,
    <<"dimanche", "sunday">> >>

\* for fr, en in table.items(): normalized = normalized.replace(fr, en.lower())
RECURSIVE ReplaceNames(_, _)
ReplaceNames(normalized, table) ==
    IF table = <<>> \/ normalized = "" THEN normalized
    ELSE ReplaceNames(PyReplace(normalized, table[1][1], table[1][2]), Tail(table))

\* datetime.strptime -----------------------------------------------------

\* the month and weekday abbreviations %b and %a accept (C / English locale)
month_abbr == <<"jan", "feb", "mar", "apr", "may", "jun", "jul", "aug", "sep", "oct",
                "nov", "dec">>
day_abbr == <<"mon", "tue", "wed", "thu", "fri", "sat", "sun">>

\* the directives a lowered format can hold that strptime knows; any other
\* letter after % ('%h', '%s') is a bad directive and raises ValueError
known_directives == {"%y", "%m", "%d", "%b", "%a"}

\* a format as its items: a directive '%x' or one literal character
RECURSIVE FormatItems(_)
FormatItems(fmt) ==
    IF fmt = "" THEN <<>>
    ELSE IF CharAt(fmt, 1) = "%" /\ Len(fmt) >= 2
         THEN <<SubSeq(fmt, 1, 2)>> \o FormatItems(SubSeq(fmt, 3, Len(fmt)))
         ELSE <<CharAt(fmt, 1)>> \o FormatItems(SubSeq(fmt, 2, Len(fmt)))

BadDirective(items) ==
    \E k \in 1..Len(items) : Len(items[k]) = 2 /\ items[k] \notin known_directives

\* The lengths one item of the format regex can match at s[i], in the order
\* the regex tries them:
\*   %d  (3[0-1]|[1-2]\d|0[1-9]|[1-9]| [1-9])     %m  (1[0-2]|0[1-9]|[1-9])
\*   %y  (\d\d)      %b, %a  one of the abbreviations      ' '  \s+ (greedy)
ItemLengths(s, i, item) ==
    LET c1 == IF i <= Len(s) THEN CharAt(s, i) ELSE ""
        c2 == IF i + 1 <= Len(s) THEN CharAt(s, i + 1) ELSE ""
        three == IF i + 2 <= Len(s) THEN SubSeq(s, i, i + 2) ELSE ""
    IN  CASE item = "%d" ->
               (IF \/ c1 = "3" /\ c2 \in {"0", "1"}
                   \/ c1 \in {"1", "2"} /\ c2 # "" /\ IsDigit(c2)
                   \/ c1 = "0" /\ c2 # "" /\ IsDigit(c2) /\ c2 # "0"
                THEN <<2>> ELSE <<>>)
               \o (IF c1 # "" /\ IsDigit(c1) /\ c1 # "0" THEN <<1>> ELSE <<>>)
               \o (IF c1 = " " /\ c2 # "" /\ IsDigit(c2) /\ c2 # "0" THEN <<2>> ELSE <<>>)
          [] item = "%m" ->
               (IF \/ c1 = "1" /\ c2 \in {"0", "1", "2"}
                   \/ c1 = "0" /\ c2 # "" /\ IsDigit(c2) /\ c2 # "0"
                THEN <<2>> ELSE <<>>)
               \o (IF c1 # "" /\ IsDigit(c1) /\ c1 # "0" THEN <<1>> ELSE <<>>)
          [] item = "%y" ->
               IF c1 # "" /\ c2 # "" /\ IsDigit(c1) /\ IsDigit(c2) THEN <<2>> ELSE <<>>
          [] item = "%b" -> IF InSeq(three, month_abbr) THEN <<3>> ELSE <<>>
          [] item = "%a" -> IF InSeq(three, day_abbr) THEN <<3>> ELSE <<>>
          [] item = " " ->
               IF c1 = " "
               THEN LET last == SpacesEnd(s, i) IN [k \in 1..(last - i + 1) |-> last - i + 2 - k]
               ELSE <<>>
          [] OTHER -> IF c1 = item THEN <<1>> ELSE <<>>

NoMatch == [ok |-> FALSE, end |-> 0, groups |-> <<>>]

\* the first of the lengths, in their order, after which the rest of the
\* format matches (tries[j] is that match for lengths[j]); groups holds the
\* text every item matched
PickMatch(s, i, lengths, tries) ==
    LET good == {j \in 1..Len(lengths) : tries[j].ok} IN
    IF good = {} THEN NoMatch
    ELSE [ok |-> TRUE, end |-> tries[Leftmost(good)].end,
          groups |-> <<SubSeq(s, i, i + lengths[Leftmost(good)] - 1)>>
                     \o tries[Leftmost(good)].groups]

\* format_regex.match(data_string): the items from the k-th on matched at
\* s[i], backtracking over the alternatives of each item in their order
RECURSIVE ReMatch(_, _, _, _)
RECURSIVE ReMatchItem(_, _, _, _, _)
ReMatchItem(s, i, items, k, lengths) ==
    PickMatch(s, i, lengths,
              [j \in 1..Len(lengths) |-> ReMatch(s, i + lengths[j], items, k + 1)])

ReMatch(s, i, items, k) ==
    IF k > Len(items) THEN [ok |-> TRUE, end |-> i - 1, groups |-> <<>>]
    ELSE ReMatchItem(s, i, items, k, ItemLengths(s, i, items[k]))

IndexIn(x, q) == CHOOSE k \in 1..Len(q) : q[k] = x

IsLeap(year) == year % 4 = 0 /\ (year % 100 # 0 \/ year % 400 = 0)

DaysInMonth(year, month) ==
    IF month = 2 THEN (IF IsLeap(year) THEN 29 ELSE 28)
    ELSE IF month \in {4, 6, 9, 11} THEN 30 ELSE 31

ValueError == [raised |-> TRUE, year |-> 0, month |-> 0, day |-> 0]

\* the text the directive matched
GroupOf(found, items, directive) == found.groups[IndexIn(directive, items)]

\* %y is a year of the century: 69..99 are 19yy, 00..68 are 20yy
CenturyYear(yy) == (IF yy <= 68 THEN 2000 ELSE 1900) + yy

\* datetime(year, month, day): ValueError for a day the month does not have
DateOf(year, month, day) ==
    IF day > DaysInMonth(year, month) THEN ValueError
    ELSE [raised |-> FALSE, year |-> year, month |-> month, day |-> day]

\* the date of a match: without %y the year is 1900; the weekday of %a is
\* read and not used
FoundDate(found, items) ==
    DateOf(IF InSeq("%y", items) THEN CenturyYear(IntOf(GroupOf(found, items, "%y")))
           ELSE 1900,
           IF InSeq("%m", items) THEN IntOf(GroupOf(found, items, "%m"))
           ELSE IF InSeq("%b", items) THEN IndexIn(GroupOf(found, items, "%b"), month_abbr)
           ELSE 1,
           IF InSeq("%d", items) THEN IntOf(LStrip(GroupOf(found, items, "%d"))) ELSE 1)

\* ValueError for a text the format does not match and for unconverted
\* data after the match
MatchedDate(data_string, items, found) ==
    IF ~found.ok \/ found.end # Len(data_string) THEN ValueError
    ELSE FoundDate(found, items)

\* ValueError for a bad directive
ParseItems(data_string, items) ==
    IF BadDirective(items) THEN ValueError
    ELSE MatchedDate(data_string, items, ReMatch(data_string, 1, items, 1))

\* datetime.strptime(data_string, format): the datetime's date, or ValueError
strptime(data_string, format) == ParseItems(data_string, FormatItems(format))

\* dt.strftime('%Y-%m-%d')
strftime(year, month, day) == DecStr(year) \o "-" \o Fmt02d(month) \o "-" \o Fmt02d(day)

\* for fmt in formats: the first format strptime accepts gives the date;
\* a date of the year 1900 gets the current year
RECURSIVE TryFormats(_, _, _)
RECURSIVE TryFormat(_, _, _, _)
TryFormat(dt, normalized, fmts, now_year) ==
    IF dt.raised THEN TryFormats(normalized, Tail(fmts), now_year)
    ELSE strftime(IF dt.year = 1900 THEN now_year ELSE dt.year, dt.month, dt.day)

TryFormats(normalized, fmts, now_year) ==
    IF fmts = <<>> THEN NONE
    ELSE TryFormat(strptime(normalized, Lower(fmts[1])), normalized, fmts, now_year)

\* the regex fallback ------------------------------------------------------

DateSep(c) == c \in {"/", "-"}

\* (\d{1,2})[/\-] at s[i]: the number of digits of the group, 0 for no match.
\* The group is greedy; with two digits at s[i] the one-digit alternative can
\* not be followed by a separator.
ShortGroup(s, i) ==
    IF i + 2 <= Len(s) /\ AllDigits(SubSeq(s, i, i + 1)) /\ DateSep(CharAt(s, i + 2)) THEN 2
    ELSE IF i + 1 <= Len(s) /\ IsDigit(CharAt(s, i)) /\ DateSep(CharAt(s, i + 1)) THEN 1
    ELSE 0

FourDigits(s, i) == i + 3 <= Len(s) /\ AllDigits(SubSeq(s, i, i + 3))

\* re.search(r'(\d{1,2})[/\-](\d{1,2})[/\-](\d{4})', date_str) and its formatter
DayFirstPattern(date_str) ==
    LET g1(i) == ShortGroup(date_str, i)
        g2(i) == ShortGroup(date_str, i + g1(i) + 1)
        y(i) == i + g1(i) + g2(i) + 2
        hits == {i \in 1..Len(date_str) :
                     g1(i) > 0 /\ g2(i) > 0 /\ FourDigits(date_str, y(i))}
    IN  IF hits = {} THEN NONE
        ELSE LET i == Leftmost(hits) IN
             SubSeq(date_str, y(i), y(i) + 3) \o "-"
             \o ZFill2(SubSeq(date_str, i + g1(i) + 1, i + g1(i) + g2(i))) \o "-"
             \o ZFill2(SubSeq(date_str, i, i + g1(i) - 1))

\* re.search(r'(\d{4})[/\-](\d{1,2})[/\-](\d{1,2})', date_str) and its formatter
YearFirstPattern(date_str) ==
    LET g2(i) == ShortGroup(date_str, i + 5)
        d(i) == i + 5 + g2(i) + 1
        hits == {i \in 1..Len(date_str) :
                     /\ FourDigits(date_str, i)
                     /\ i + 4 <= Len(date_str) /\ DateSep(CharAt(date_str, i + 4))
                     /\ g2(i) > 0
                     /\ d(i) <= Len(date_str) /\ IsDigit(CharAt(date_str, d(i)))}
    IN  IF hits = {} THEN NONE
        ELSE LET i == Leftmost(hits)
                 last == IF d(i) < Len(date_str) /\ IsDigit(CharAt(date_str, d(i) + 1))
                         THEN d(i) + 1 ELSE d(i)
             IN  SubSeq(date_str, i, i + 3) \o "-"
                 \o ZFill2(SubSeq(date_str, i + 5, i + 4 + g2(i))) \o "-"
                 \o ZFill2(SubSeq(date_str, d(i), last))

\* Python: a or b, for two Optional[str]
FirstTruthy(a, b) == IF Truthy(a) THEN a ELSE b

\* normalize_date(date_str) -> 'YYYY-MM-DD' or None; now_year is
\* datetime.now().year at the call
normalize_date(date_str, now_year) ==
    IF ~Truthy(date_str) THEN NONE
    ELSE LET text == Strip(date_str) IN
         FirstTruthy(TryFormats(ReplaceNames(ReplaceNames(Lower(text), french_months),
                                             french_days),
                                formats, now_year),
                     FirstTruthy(DayFirstPattern(text), YearFirstPattern(text)))

(***************************************************************************)
(* backend/core/models.py                                                  *)
(***************************************************************************)

\* <<alias, category>> in the order of the dict
CATEGORY_ALIASES == <<
    <<"concert", "musique">>, <<"concerts", "musique">>, <<"music", "musique">>,
    <<"live music", "musique">>, <<"classical", "musique">>, <<"classique", "musique">>,
    <<"jazz", "musique">>, <<"rock", "musique">>, <<"pop", "musique">>,
    <<"electro", "musique">>, <<"electronic", "musique">>, <<"opera", "spectacles">>,
    <<"opéra", "spectacles">>, <<"theater", "spectacles">>, <<"theatre", "spectacles">>,
    <<"théâtre", "spectacles">>, <<"comedy", "spectacles">>, <<"comédie", "spectacles">>,
    <<"stand-up", "spectacles">>, <<"standup", "spectacles">>, <<"humour", "spectacles">>,
    <<"circus", "spectacles">>, <<"cirque", "spectacles">>, <<"danse", "spectacles">>,
    <<"dance", "spectacles">>, <<"ballet", "spectacles">>, <<"cabaret", "spectacles">>,
    <<"exhibition", "arts_visuels">>, <<"exposition", "arts_visuels">>, <<"expo", "arts_visuels">>,
    <<"museum", "arts_visuels">>, <<"musée", "arts_visuels">>, <<"gallery", "arts_visuels">>,
    <<"galerie", "arts_visuels">>, <<"art", "arts_visuels">>, <<"photography", "arts_visuels">>,
    <<"photographie", "arts_visuels">>, <<"vernissage", "arts_visuels">>, <<"workshop", "ateliers">>,
    <<"atelier", "ateliers">>, <<"class", "ateliers">>, <<"cours", "ateliers">>,
    <<"ceramics", "ateliers">>, <<"céramique", "ateliers">>, <<"pottery", "ateliers">>,
    <<"poterie", "ateliers">>, <<"painting", "ateliers">>, <<"peinture", "ateliers">>,
    <<"drawing", "ateliers">>, <<"dessin", "ateliers">>, <<"craft", "ateliers">>,
    <<"artisanat", "ateliers">>, <<"sport", "sport">>, <<"fitness", "sport">>,
    <<"yoga", "sport">>, <<"running", "sport">>, <<"cycling", "sport">>,
    <<"vélo", "sport">>, <<"food", "gastronomie">>, <<"wine", "gastronomie">>,
    <<"vin", "gastronomie">>, <<"cooking", "gastronomie">>, <<"cuisine", "gastronomie">>,
    <<"gastronomie", "gastronomie">>, <<"dégustation", "gastronomie">>, <<"tasting", "gastronomie">>,
    <<"brunch", "gastronomie">>, <<"conference", "culture">>, <<"conférence", "culture">>,
    <<"talk", "culture">>, <<"lecture", "culture">>, <<"film", "culture">>,
    <<"cinema", "culture">>, <<"cinéma", "culture">>, <<"movie", "culture">>,
    <<"visite", "culture">>, <<"visit", "culture">>, <<"guided tour", "culture">>,
    <<"visite guidée", "culture">>, <<"party", "nightlife">>, <<"soirée", "nightlife">>,
    <<"club", "nightlife">>, <<"dj", "nightlife">>, <<"bar", "nightlife">>,
    <<"nightlife", "nightlife">>, <<"meetup", "rencontres">>, <<"networking", "rencontres">>,
    <<"afterwork", "rencontres">>, <<"speed dating", "rencontres">>, <<"social", "rencontres">>
>>

\* CATEGORY_ALIASES.get(alias.lower().strip(), 'culture')
get_category_from_alias(alias) ==
    LET key == Strip(Lower(alias))
        hits == {k \in 1..Len(CATEGORY_ALIASES) : CATEGORY_ALIASES[k][1] = key}
    IN  IF hits = {} THEN "culture" ELSE CATEGORY_ALIASES[CHOOSE k \in hits : TRUE][2]

\* UnifiedEvent.generate_id: the text that is hashed stands for its digest
generate_id(title, date, location, source) ==
    Lower(Strip(title)) \o "|" \o date \o "|" \o Lower(Strip(location)) \o "|" \o source

\* normalize_event, "Normalize dates": the parsed date_start, today's date
\* when normalize_date gives None
EventDateStart(scraped, now) ==
    FirstTruthy(normalize_date(scraped.date_start, IntOf(SubSeq(now.date, 1, 4))), now.date)

\* normalize_event, "Normalize location"
EventLocationName(scraped) ==
    IF normalize_text(scraped.location_name) # ""
    THEN normalize_text(scraped.location_name) ELSE "Paris"

\* normalize_event, "Generate ID"
EventId(scraped, now) ==
    generate_id(scraped.title, EventDateStart(scraped, now), EventLocationName(scraped),
                scraped.source_name)

\* normalize_event(scraped, category_override): the UnifiedEvent it builds.
\* now is what datetime.now() reads during the call: its date as
\* strftime('%Y-%m-%d') gives it and its isoformat(); the readings of one call
\* are taken at one instant.  The fields the call does not pass get the
\* defaults of the dataclass, created_at and updated_at from their factories.
normalize_event(scraped, category_override, now) ==
    LET date_start == EventDateStart(scraped, now)
        address == normalize_address(scraped.address)
        location_name == EventLocationName(scraped)
        price == EventPrice(scraped)
        category == IF Truthy(category_override) THEN category_override
                    ELSE IF Truthy(scraped.raw_category)
                         THEN get_category_from_alias(scraped.raw_category)
                         ELSE "culture"
        ticket_url == IF Truthy(scraped.ticket_url) THEN scraped.ticket_url
                      ELSE scraped.source_event_url
    IN  [ id |-> EventId(scraped, now),
          title |-> normalize_text(scraped.title),
          description |-> normalize_text(scraped.description),
          category |-> category,
          date_start |-> date_start,
          sub_category |-> NONE,
          tags |-> scraped.raw_tags,
          date_end |-> normalize_date(scraped.date_end, IntOf(SubSeq(now.date, 1, 4))),
          time_start |-> normalize_time(scraped.time_start),
          time_end |-> normalize_time(scraped.time_end),
          time_of_day |-> get_time_of_day(scraped.time_start),
          timezone |-> "Europe/Paris",
          location_name |-> location_name,
          address |-> address,
          arrondissement |-> IF extract_arrondissement(address) # NoNum
                             THEN extract_arrondissement(address)
                             ELSE extract_arrondissement(location_name),
          latitude |-> NoNum,
          longitude |-> NoNum,
          currency |-> "EUR",
          created_at |-> now.isoformat,
          updated_at |-> now.isoformat,
          verified |-> FALSE,
          price_from |-> price.price_from,
          price_to |-> price.price_to,
          is_free |-> price.is_free,
          image_url |-> scraped.image_url,
          organizer_name |-> scraped.organizer_name,
          source_name |-> scraped.source_name,
          source_event_url |-> scraped.source_event_url,
          ticket_url |-> ticket_url,
          has_direct_ticket_button |-> scraped.has_direct_ticket_button ]

(***************************************************************************)
(* backend/core/categorizer.py                                             *)
(***************************************************************************)
VALID_CATEGORIES == <<
    "spectacles", "musique", "arts_visuels", "ateliers", "sport", "gastronomie", "culture",
    "nightlife", "rencontres" >>

\* SUB_CATEGORIES, in the order of the dict
SUB_CATEGORIES == <<
    [category |-> "spectacles", words |-> <<
        "theatre", "opera", "ballet", "danse", "humour", "stand_up", "cirque", "magie",
        "cabaret" >>],
    [category |-> "musique", words |-> <<
        "classique", "jazz", "rock", "pop", "electro", "rap", "world", "chanson_francaise",
        "symphonique" >>],
    [category |-> "arts_visuels", words |-> <<
        "exposition", "musee", "galerie", "photographie", "street_art", "art_contemporain",
        "vernissage" >>],
    [category |-> "ateliers", words |-> <<
        "ceramique", "poterie", "peinture", "dessin", "sculpture", "couture", "bijoux",
        "ecriture" >>],
    [category |-> "sport", words |-> <<
        "yoga", "fitness", "running", "escalade", "danse", "arts_martiaux", "velo" >>],
    [category |-> "gastronomie", words |-> <<
        "degustation_vin", "cours_cuisine", "patisserie", "brunch", "food_market" >>],
    [category |-> "culture", words |-> <<
        "cinema", "conference", "visite_guidee", "lecture", "masterclass" >>],
    [category |-> "nightlife", words |-> <<
        "club", "bar", "rooftop", "speakeasy", "soiree" >>],
    [category |-> "rencontres", words |-> <<
        "meetup", "networking", "afterwork", "speed_dating" >>]
>>

\* CATEGORY_KEYWORDS, in the order of the dict
CATEGORY_KEYWORDS == <<
    [category |-> "spectacles", words |-> <<
        "théâtre", "theatre", "opéra", "opera", "ballet", "danse", "dance", "comédie",
        "comedie", "comedy", "humour", "stand-up", "standup", "one man show", "cirque",
        "circus", "magie", "magic", "cabaret", "spectacle", "pièce", "marionnettes",
        "improvisation", "impro" >>],
    [category |-> "musique", words |-> <<
        "concert", "musique", "music", "live", "jazz", "rock", "pop", "electro",
        "electronic", "classique", "classical", "symphonie", "symphony", "orchestre",
        "orchestra", "rap", "hip-hop", "hip hop", "chanson", "folk", "blues", "récital",
        "recital", "philharmonie", "chamber music", "quartet", "trio" >>],
    [category |-> "arts_visuels", words |-> <<
        "exposition", "exhibition", "expo", "musée", "museum", "galerie", "gallery", "art",
        "vernissage", "photographie", "photography", "photo", "peinture", "painting",
        "sculpture", "installation", "beaux-arts", "contemporain" >>],
    [category |-> "ateliers", words |-> <<
        "atelier", "workshop", "cours", "class", "stage", "céramique", "ceramics",
        "poterie", "pottery", "peinture", "painting", "dessin", "drawing", "sculpture",
        "couture", "sewing", "bijoux", "jewelry", "créatif", "creative", "diy",
        "fabrication", "initiation", "masterclass créative" >>],
    [category |-> "sport", words |-> <<
        "sport", "fitness", "yoga", "pilates", "running", "course", "vélo", "cycling",
        "escalade", "climbing", "natation", "swimming", "musculation", "gym", "boxe",
        "boxing", "arts martiaux", "martial arts", "match", "compétition" >>],
    [category |-> "gastronomie", words |-> <<
        "dégustation", "tasting", "vin", "wine", "cuisine", "cooking", "chef",
        "gastronomie", "gastronomy", "pâtisserie", "pastry", "chocolat", "chocolate",
        "fromage", "cheese", "brunch", "food", "restaurant", "repas", "dîner", "dinner" >>],
    [category |-> "culture", words |-> <<
        "cinéma", "cinema", "film", "movie", "conférence", "conference", "talk", "lecture",
        "visite", "visit", "guidée", "guided", "patrimoine", "heritage", "histoire",
        "history", "littérature", "literature", "livre", "book", "débat" >>],
    [category |-> "nightlife", words |-> <<
        "club", "soirée", "party", "nuit", "night", "dj", "danse", "dancing", "bar",
        "cocktail", "rooftop", "speakeasy", "lounge", "afterparty" >>],
    [category |-> "rencontres", words |-> <<
        "meetup", "networking", "afterwork", "rencontre", "meeting", "social",
        "speed dating", "apéro", "drinks", "échange", "exchange", "conversation",
        "communauté", "community" >>]
>>


CatResult(category, sub_category) == [category |-> category, sub_category |-> sub_category]

\* str.replace('_', c)
RECURSIVE ReplaceUnderscore(_, _)
ReplaceUnderscore(s, c) ==
    IF s = "" THEN ""
    ELSE (IF CharAt(s, 1) = "_" THEN c ELSE CharAt(s, 1))
         \o ReplaceUnderscore(SubSeq(s, 2, Len(s)), c)

\* _find_sub_category(text, category)
find_sub_category(text, category) ==
    LET row == CHOOSE k \in 1..Len(SUB_CATEGORIES) : SUB_CATEGORIES[k].category = category
        sub_cats == SUB_CATEGORIES[row].words
        hits == {k \in 1..Len(sub_cats) :
                    \/ Contains(text, ReplaceUnderscore(sub_cats[k], " "))
                    \/ Contains(text, ReplaceUnderscore(sub_cats[k], "-"))}
    IN  IF hits = {} THEN NONE
        ELSE sub_cats[CHOOSE k \in hits : \A j \in hits : k <= j]

\* sum(1 for kw in keywords if kw.lower() in text)
KeywordScore(text, row) ==
    Cardinality({k \in 1..Len(CATEGORY_KEYWORDS[row].words) :
                    Contains(text, Lower(CATEGORY_KEYWORDS[row].words[k]))})

\* a variant where the last of the categories with the greatest score wins
categorize_with_rules_last(title, description, venue_name) ==
    LET text == Lower(title \o " " \o description \o " " \o venue_name)
        score == [row \in 1..Len(CATEGORY_KEYWORDS) |-> KeywordScore(text, row)]
        scores == {row \in 1..Len(CATEGORY_KEYWORDS) : score[row] > 0}
    IN  IF scores = {} THEN CatResult("culture", NONE)
        ELSE LET best == CHOOSE row \in scores :
                            /\ \A r \in scores : score[r] <= score[row]
                            /\ \A r \in scores : score[r] = score[row] => r <= row
                 best_category == CATEGORY_KEYWORDS[best].category
             IN  CatResult(best_category, find_sub_category(text, best_category))

\* _categorize_with_rules(title, description, venue_name)
categorize_with_rules(title, description, venue_name) ==
    LET text == Lower(title \o " " \o description \o " " \o venue_name)
        score == [row \in 1..Len(CATEGORY_KEYWORDS) |-> KeywordScore(text, row)]
        scores == {row \in 1..Len(CATEGORY_KEYWORDS) : score[row] > 0}
    IN  IF scores = {} THEN CatResult("culture", NONE)
        ELSE \* max(scores, key=scores.get): the first key with the greatest value
             LET best == CHOOSE row \in scores :
                            /\ \A r \in scores : score[r] <= score[row]
                            /\ \A r \in scores : score[r] = score[row] => row <= r
                 best_category == CATEGORY_KEYWORDS[best].category
             IN  CatResult(best_category, find_sub_category(text, best_category))

\* json.loads on the documents the classifier replies of the model contain:
\* <<document, value>>; a dict is a record of its 'category' and 'sub_category'
\* entries (ABSENT when the key is missing, NONE for null), any other JSON
\* value is NotADict, and every other text raises ValueError.
ABSENT == "<absent>"
NotADict == [is_dict |-> FALSE, category |-> ABSENT, sub_category |-> ABSENT]
JsonDict(category, sub_category) ==
    [is_dict |-> TRUE, category |-> category, sub_category |-> sub_category]

JSON_DOCUMENTS == <<
    <<"{\"category\": \"musique\", \"sub_category\": \"jazz\"}", JsonDict("musique", "jazz")>>,
    <<"{\"category\": \"sport\"}", JsonDict("sport", ABSENT)>>,
    <<"{\"sub_category\": \"jazz\"}", JsonDict(ABSENT, "jazz")>>,
    <<"{\"category\": \"cinema\", \"sub_category\": null}", JsonDict("cinema", NONE)>>,
    <<"{\"category\": null}", JsonDict(NONE, ABSENT)>>,
    <<"{\"category\": \"Musique\"}", JsonDict("Musique", ABSENT)>>,
    <<"[\"musique\"]", NotADict>>
>>

IsJson(text) == \E k \in 1..Len(JSON_DOCUMENTS) : JSON_DOCUMENTS[k][1] = text
json_loads(text) == JSON_DOCUMENTS[CHOOSE k \in 1..Len(JSON_DOCUMENTS) : JSON_DOCUMENTS[k][1] = text][2]

\* re.search(r'\{.*\}', content, re.DOTALL): from the first "{" to the last "}"
\* after it; NONE when there is no such pair
SearchBraces(content) ==
    LET opens == {i \in 1..Len(content) : CharAt(content, i) = "{"}
        first == CHOOSE i \in opens : \A j \in opens : i <= j
        closes == {i \in 1..Len(content) : CharAt(content, i) = "}" /\ i > first}
        last == CHOOSE i \in closes : \A j \in closes : i >= j
    IN  IF opens = {} \/ closes = {} THEN NONE ELSE SubSeq(content, first, last)

\* the markdown fence: three backquotes, a character the strings of the model
\* write as an apostrophe
FENCE == "'''"

AiRaised == [raised |-> TRUE, result |-> CatResult(NONE, NONE)]
AiReturned(result) == [raised |-> FALSE, result |-> result]

\* _categorize_with_ai, given what the chat completion call does (reply):
\* the exception it lets out, or the dict it returns
categorize_with_ai(reply) ==
    IF reply.raises THEN AiRaised                       \* create() raised or timed out
    ELSE IF reply.content = NONE THEN AiRaised          \* None.strip()
    ELSE LET content == Strip(reply.content)
             fenced == Contains(content, FENCE)
             document == IF fenced THEN SearchBraces(content) ELSE content
         IN  IF document = NONE \/ ~IsJson(document) \/ ~json_loads(document).is_dict
             THEN AiReturned(CatResult("culture", NONE))       \* the bare except
             ELSE LET result == json_loads(document) IN
                  AiReturned(CatResult(
                      IF result.category = ABSENT THEN "culture" ELSE result.category,
                      IF result.sub_category = ABSENT THEN NONE ELSE result.sub_category))

\* categorize without "if result['category'] in VALID_CATEGORIES"
categorize_unvalidated(client, reply, title, description, source_name, venue_name) ==
    LET ai == categorize_with_ai(reply) IN
    IF client /\ ~ai.raised
    THEN ai.result
    ELSE categorize_with_rules(title, description, venue_name)

\* EventCategorizer.categorize(title, description, source_name, venue_name);
\* client: whether self.client is set
categorize(client, reply, title, description, source_name, venue_name) ==
    LET ai == categorize_with_ai(reply) IN
    IF client /\ ~ai.raised /\ InSeq(ai.result.category, VALID_CATEGORIES)
    THEN ai.result
    ELSE categorize_with_rules(title, description, venue_name)

(***************************************************************************)
(* backend/core/deduplicate.py                                             *)
(***************************************************************************)

\* dict.get(key, default) on an event dict (a record: its keys are its DOMAIN)
Get(event, key, default) == IF key \in DOMAIN event THEN event[key] ELSE default

\* the import of rapidfuzz failed: the build without the optional library
HAS_RAPIDFUZZ == FALSE

title_threshold == 85
location_threshold == 75

CharsOf(s) == {CharAt(s, i) : i \in 1..Len(s)}

AccentedChars == <<"é","è","ê","à","â","î","ô","û","ç","É","È","À","Â","Ê","Î","Ô","Û","Ç">>
UnaccentedChars == <<"e","e","e","a","a","i","o","u","c","E","E","A","A","E","I","O","U","C">>

\* NFKD, then the combining marks dropped: the letter without its accent
RECURSIVE StripAccents(_)
StripAccents(s) ==
    IF s = "" THEN ""
    ELSE LET c == CharAt(s, 1)
             hit == {k \in 1..Len(AccentedChars) : AccentedChars[k] = c}
         IN  (IF hit = {} THEN c ELSE UnaccentedChars[CHOOSE k \in hit : TRUE])
             \o StripAccents(SubSeq(s, 2, Len(s)))

\* str.split(): the words between runs of whitespace
RECURSIVE Split(_)
Split(s) ==
    LET t == LStrip(s) IN
    IF t = "" THEN <<>>
    ELSE LET n == CHOOSE k \in 1..Len(t) :
                      /\ \A i \in 1..k : ~IsSpace(CharAt(t, i))
                      /\ (k = Len(t) \/ IsSpace(CharAt(t, k + 1)))
         IN  <<SubSeq(t, 1, n)>> \o Split(SubSeq(t, n + 1, Len(t)))

\* ' '.join(words)
RECURSIVE Join(_)
Join(words) ==
    IF words = <<>> THEN ""
    ELSE IF Len(words) = 1 THEN words[1]
    ELSE words[1] \o " " \o Join(Tail(words))

stopwords == <<"le", "la", "les", "de", "du", "des", "un", "une", "the", "a", "an",
               "et", "and", "à", "au", "aux", "en", "dans", "sur", "par", "pour",
               "concert", "spectacle", "exposition", "atelier", "soirée", "soiree",
               "paris", "france">>

RECURSIVE WithoutStopwords(_)
WithoutStopwords(words) ==
    IF words = <<>> THEN <<>>
    ELSE (IF InSeq(words[1], stopwords) THEN <<>> ELSE <<words[1]>>)
         \o WithoutStopwords(Tail(words))

\* \w of the characters left after StripAccents and lower()
WordChars == CharsOf("abcdefghijklmnopqrstuvwxyz0123456789_ABCDEFGHIJKLMNOPQRSTUVWXYZ")

\* re.sub(r'[^\w\s]', '', text)
RECURSIVE RemoveSpecial(_)
RemoveSpecial(s) ==
    IF s = "" THEN ""
    ELSE LET c == CharAt(s, 1) IN
         (IF c \in WordChars \/ IsSpace(c) THEN c ELSE "")
         \o RemoveSpecial(SubSeq(s, 2, Len(s)))

\* normalize_for_comparison(text)
normalize_for_comparison(text) ==
    IF ~Truthy(text) THEN ""
    ELSE Join(Split(RemoveSpecial(Join(WithoutStopwords(Split(Lower(StripAccents(text))))))))

\* calculate_similarity(text1, text2), in thousandths of a point (100.0 is
\* 100000): exact for the word counts of the model, where the quotient of the
\* code never falls strictly between a threshold and the next thousandth
calculate_similarity(text1, text2) ==
    LET norm1 == normalize_for_comparison(text1)
        norm2 == normalize_for_comparison(text2)
        words1 == {Split(norm1)[k] : k \in 1..Len(Split(norm1))}
        words2 == {Split(norm2)[k] : k \in 1..Len(Split(norm2))}
    IN  IF norm1 = "" \/ norm2 = "" THEN 0
        ELSE IF words1 = {} \/ words2 = {} THEN 0
        ELSE (Cardinality(words1 \cap words2) * 100000) \div Cardinality(words1 \cup words2)

Points(n) == n * 1000

\* a variant that compares the month only: the day of the date is dropped
EventDate_month(event, default) ==
    IF Truthy(Get(event, "date_start", NONE)) THEN SubSeq(event.date_start, 1, 7)
    ELSE Get(event, "date", default)

\* event.get('date_start') or event.get('date', default)
EventDate(event, default) ==
    IF Truthy(Get(event, "date_start", NONE)) THEN event.date_start
    ELSE Get(event, "date", default)

\* event.get('location_name') or event.get('venue', '')
EventLocation(event) ==
    IF Truthy(Get(event, "location_name", NONE)) THEN event.location_name
    ELSE Get(event, "venue", "")

DupResult(is_duplicate, score, reason) ==
    [is_duplicate |-> is_duplicate, similarity_score |-> score, match_reason |-> reason]

IntMax(a, b) == IF a >= b THEN a ELSE b

\* a variant that lets every similarity pass
BelowThreshold_never(similarity, threshold) == FALSE

\* similarity < threshold
BelowThreshold(similarity, threshold) == similarity < Points(threshold)

\* are_duplicates(event1, event2) -> (is_duplicate, similarity_score, reason);
\* the reason keeps the names of the f-string's parts, not its digits
are_duplicates(event1, event2) ==
    LET date1 == EventDate(event1, NONE)
        date2 == EventDate(event2, NONE)
        title_similarity ==
            calculate_similarity(Get(event1, "title", ""), Get(event2, "title", ""))
        loc1 == EventLocation(event1)
        loc2 == EventLocation(event2)
        addr1 == Get(event1, "address", "")
        addr2 == Get(event2, "address", "")
    IN  IF date1 # date2 THEN DupResult(FALSE, 0, "")
        ELSE IF BelowThreshold(title_similarity, title_threshold)
             THEN DupResult(FALSE, title_similarity, "")
        ELSE IF /\ Truthy(loc1) /\ Truthy(loc2)
                /\ BelowThreshold(calculate_similarity(loc1, loc2), location_threshold)
             THEN DupResult(FALSE, title_similarity, "")
        ELSE IF /\ Truthy(addr1) /\ Truthy(addr2)
                /\ calculate_similarity(addr1, addr2) > Points(80)
             THEN DupResult(TRUE, IntMax(title_similarity, calculate_similarity(addr1, addr2)),
                            "title,address")
        ELSE DupResult(TRUE, title_similarity, "title")

trusted_sources == <<"philharmonie", "opera", "louvre", "orsay", "pompidou">>

\* _choose_canonical.score_completeness(event)
score_completeness(event) ==
    LET has_ticket == Truthy(Get(event, "ticket_url", NONE))
        desc == Get(event, "description", "")
        source == Lower(Get(event, "source_name", ""))
    IN  (IF has_ticket /\ Get(event, "has_direct_ticket_button", FALSE) THEN 10
         ELSE IF has_ticket THEN 5 ELSE 0)
      + (IF Truthy(Get(event, "image_url", NONE)) THEN 3 ELSE 0)
      + (IF Len(desc) > 200 THEN 3 ELSE IF Len(desc) > 50 THEN 1 ELSE 0)
      + (IF Get(event, "price_from", 0) # 0 \/ TruthyNum(Get(event, "price", NoNum))
         THEN 2 ELSE 0)
      + (IF \E k \in 1..Len(trusted_sources) : Contains(source, trusted_sources[k])
         THEN 5 ELSE 0)

\* a variant where a tie goes to the second event
choose_canonical_later(event1, event2) ==
    IF score_completeness(event1) > score_completeness(event2)
    THEN <<event1, event2>>
    ELSE <<event2, event1>>

\* _choose_canonical(event1, event2) -> (canonical, duplicate)
choose_canonical(event1, event2) ==
    IF score_completeness(event1) >= score_completeness(event2)
    THEN <<event1, event2>>
    ELSE <<event2, event1>>

DuplicateMatch(canonical_id, duplicate_id, score, reason) ==
    [canonical_id |-> canonical_id, duplicate_id |-> duplicate_id,
     similarity_score |-> score, match_reason |-> reason]

\* str(i) for the small indexes of the model
ToStr(i) == CharAt("0123456789", i + 1)

\* by_date: the dates in the order their first event comes, events without a
\* date left out
RECURSIVE DateKeys(_)
DateKeys(events) ==
    IF events = <<>> THEN <<>>
    ELSE LET earlier == DateKeys(SubSeq(events, 1, Len(events) - 1))
             date == EventDate(events[Len(events)], "")
         IN  IF Truthy(date) /\ ~InSeq(date, earlier) THEN Append(earlier, date) ELSE earlier

\* by_date[date]: the events of that date, in input order
RECURSIVE DateEvents(_, _)
DateEvents(events, date) ==
    IF events = <<>> THEN <<>>
    ELSE (IF EventDate(events[1], "") = date THEN <<events[1]>> ELSE <<>>)
         \o DateEvents(Tail(events), date)

\* for i, event1 in enumerate(date_events): for event2 in date_events[i+1:]:
\* the <<i, event1, event2>> in the order the loops visit them (i from 0)
RECURSIVE GroupPairs(_, _, _)
GroupPairs(date_events, i, j) ==
    IF i > Len(date_events) THEN <<>>
    ELSE IF j > Len(date_events) THEN GroupPairs(date_events, i + 1, i + 2)
    ELSE <<<<i - 1, date_events[i], date_events[j]>>>> \o GroupPairs(date_events, i, j + 1)

RECURSIVE CandidatePairs(_, _)
CandidatePairs(events, dates) ==
    IF dates = <<>> THEN <<>>
    ELSE GroupPairs(DateEvents(events, dates[1]), 1, 2)
         \o CandidatePairs(events, Tail(dates))

\* the body of the inner loop, over the candidate pairs from the k-th on
RECURSIVE ComparePairs(_, _, _, _)
ComparePairs(pairs, k, seen_pairs, duplicates) ==
    IF k > Len(pairs) THEN duplicates
    ELSE LET i == pairs[k][1]
             event1 == pairs[k][2]
             event2 == pairs[k][3]
             pair == {Get(event1, "id", ToStr(i)), Get(event2, "id", ToStr(i + 1))}
             verdict == are_duplicates(event1, event2)
             chosen == choose_canonical(event1, event2)
         IN  IF pair \in seen_pairs THEN ComparePairs(pairs, k + 1, seen_pairs, duplicates)
             ELSE IF ~verdict.is_duplicate
                  THEN ComparePairs(pairs, k + 1, seen_pairs \cup {pair}, duplicates)
             ELSE ComparePairs(pairs, k + 1, seen_pairs \cup {pair},
                      Append(duplicates,
                             DuplicateMatch(Get(chosen[1], "id", ""), Get(chosen[2], "id", ""),
                                            verdict.similarity_score, verdict.match_reason)))

\* find_duplicates(events) -> the list of DuplicateMatch
find_duplicates(events) ==
    ComparePairs(CandidatePairs(events, DateKeys(events)), 1, {}, <<>>)

\* the value of a tags entry: the list of the record, or the JSON text that
\* UnifiedEvent.to_dict() puts in its place; a list is kept as the set of its
\* items, list(set(...)) giving them in no fixed order
PyList(items) == [kind |-> "list", items |-> items]
PyStr(text) == [kind |-> "str", text |-> text]

\* json.dumps(list of str), as to_dict() calls it
RECURSIVE json_dumps_items(_)
json_dumps_items(tags) ==
    IF tags = <<>> THEN ""
    ELSE "\"" \o tags[1] \o "\"" \o
         (IF Len(tags) = 1 THEN "" ELSE ", " \o json_dumps_items(Tail(tags)))

json_dumps(tags) == "[" \o json_dumps_items(tags) \o "]"

\* json.loads(text) of such a text, as from_dict() calls it: the strings
\* between the quotes, current being the string that is open (NONE: none)
RECURSIVE json_loads_items(_, _, _)
json_loads_items(text, i, current) ==
    IF i > Len(text) THEN {}
    ELSE IF CharAt(text, i) = "\""
         THEN IF current = NONE THEN json_loads_items(text, i + 1, "")
              ELSE {current} \cup json_loads_items(text, i + 1, NONE)
    ELSE IF current = NONE THEN json_loads_items(text, i + 1, NONE)
    ELSE json_loads_items(text, i + 1, current \o CharAt(text, i))

\* set(event.get('tags', []) or []): the items of a list, the characters of a str
TagSet(event) ==
    LET tags == Get(event, "tags", PyList({}))
    IN  IF tags.kind = "list" THEN tags.items ELSE CharsOf(tags.text)

fields_to_merge ==
    <<"description", "image_url", "ticket_url", "address",
      "arrondissement", "latitude", "longitude", "price_from",
      "price_to", "time_start", "time_end", "organizer_name">>

OptionalNumberFields == {"arrondissement", "latitude", "longitude", "price_to"}

\* bool(event.get(field)): a missing key, None, '' and 0 are false
FieldTruthy(event, field) ==
    /\ field \in DOMAIN event
    /\ IF field = "price_from" THEN event[field] # 0
       ELSE IF field \in OptionalNumberFields THEN TruthyNum(event[field])
       ELSE Truthy(event[field])

\* merged[key] = value
Put(event, key, value) ==
    [k \in DOMAIN event \cup {key} |-> IF k = key THEN value ELSE event[k]]

\* a variant that takes every value the duplicate has
ShouldFill_always(merged, duplicate, field) == FieldTruthy(duplicate, field)

\* not merged.get(field) and duplicate.get(field)
ShouldFill(merged, duplicate, field) ==
    ~FieldTruthy(merged, field) /\ FieldTruthy(duplicate, field)

\* for field in fields_to_merge: fill in what the canonical misses
RECURSIVE FillMissing(_, _, _)
FillMissing(merged, duplicate, k) ==
    IF k > Len(fields_to_merge) THEN merged
    ELSE LET field == fields_to_merge[k]
         IN  IF ShouldFill(merged, duplicate, field)
             THEN FillMissing(Put(merged, field, duplicate[field]), duplicate, k + 1)
             ELSE FillMissing(merged, duplicate, k + 1)

\* a variant that does not ask whether the duplicate has a ticket_url
PreferDirectTicket_unchecked(merged, duplicate) ==
    IF /\ Get(duplicate, "has_direct_ticket_button", FALSE)
       /\ ~Get(merged, "has_direct_ticket_button", FALSE)
    THEN Put(Put(merged, "ticket_url", duplicate.ticket_url),
             "has_direct_ticket_button", TRUE)
    ELSE merged

\* prefer the ticket_url that comes with a direct button
PreferDirectTicket(merged, duplicate) ==
    IF /\ Get(duplicate, "has_direct_ticket_button", FALSE)
       /\ FieldTruthy(duplicate, "ticket_url")
       /\ ~Get(merged, "has_direct_ticket_button", FALSE)
    THEN Put(Put(merged, "ticket_url", duplicate.ticket_url),
             "has_direct_ticket_button", TRUE)
    ELSE merged

MergeTags(merged, duplicate) ==
    Put(merged, "tags", PyList(TagSet(merged) \cup TagSet(duplicate)))

LongerDescription(merged, duplicate) ==
    IF Len(Get(duplicate, "description", "")) > Len(Get(merged, "description", ""))
    THEN Put(merged, "description", duplicate.description)
    ELSE merged

\* merge_events(canonical, duplicate) -> merged
merge_events(canonical, duplicate) ==
    LongerDescription(
        MergeTags(
            PreferDirectTicket(FillMissing(canonical, duplicate, 1), duplicate),
            duplicate),
        duplicate)

\* events_by_id.get(id): the last event of the list with that id
HasId(events, id) == \E k \in 1..Len(events) : Get(events[k], "id", ToStr(k - 1)) = id

events_by_id(events, id) ==
    events[CHOOSE k \in 1..Len(events) :
              /\ Get(events[k], "id", ToStr(k - 1)) = id
              /\ \A m \in (k + 1)..Len(events) : Get(events[m], "id", ToStr(m - 1)) # id]

\* for match in duplicates: merge the duplicates recorded for event_id
RECURSIVE MergeDuplicates(_, _, _, _, _)
MergeDuplicates(merged_event, event_id, duplicates, k, events) ==
    IF k > Len(duplicates) THEN merged_event
    ELSE IF /\ duplicates[k].canonical_id = event_id
            /\ HasId(events, duplicates[k].duplicate_id)
         THEN MergeDuplicates(
                  merge_events(merged_event, events_by_id(events, duplicates[k].duplicate_id)),
                  event_id, duplicates, k + 1, events)
         ELSE MergeDuplicates(merged_event, event_id, duplicates, k + 1, events)

DuplicateIds(duplicates) == {duplicates[k].duplicate_id : k \in 1..Len(duplicates)}

\* a variant that skips no event
SkipDuplicate_never(event_id, duplicates) == FALSE

\* if event_id in duplicate_ids: continue
SkipDuplicate(event_id, duplicates) == event_id \in DuplicateIds(duplicates)

\* the merge-and-filter loop from the k-th event on
RECURSIVE MergeAndFilter(_, _, _, _, _)
MergeAndFilter(events, duplicates, k, result, merged_canonical) ==
    IF k > Len(events) THEN result
    ELSE LET event_id == Get(events[k], "id", "")
         IN  IF SkipDuplicate(event_id, duplicates)
             THEN MergeAndFilter(events, duplicates, k + 1, result, merged_canonical)
             ELSE IF event_id \in merged_canonical
                  THEN MergeAndFilter(events, duplicates, k + 1, result, merged_canonical)
             ELSE MergeAndFilter(events, duplicates, k + 1,
                      Append(result, MergeDuplicates(events[k], event_id, duplicates, 1, events)),
                      merged_canonical \cup {event_id})

\* deduplicate_events(events) -> (deduplicated_events, detected_duplicates)
deduplicate_events(events) ==
    LET duplicates == find_duplicates(events)
    IN  [events |-> MergeAndFilter(events, duplicates, 1, <<>>, {}),
         duplicates |-> duplicates]

(***************************************************************************)
(* models.py: UnifiedEvent records as dictionaries                         *)
(***************************************************************************)
\* the defaults of the dataclass fields; created_at and updated_at come from
\* the clock and are set where the record is built
UnifiedEventDefaults ==
    [ sub_category |-> NONE, tags |-> <<>>, date_end |-> NONE, time_start |-> NONE,
      time_end |-> NONE, time_of_day |-> "soir", timezone |-> "Europe/Paris",
      location_name |-> "", address |-> "", arrondissement |-> NoNum,
      latitude |-> NoNum, longitude |-> NoNum, price_from |-> 0, price_to |-> NoNum,
      currency |-> "EUR", is_free |-> FALSE, image_url |-> NONE,
      organizer_name |-> NONE, source_name |-> "", source_event_url |-> "",
      ticket_url |-> NONE, has_direct_ticket_button |-> FALSE, verified |-> FALSE ]

\* UnifiedEvent(**fields)
UnifiedEvent(fields) ==
    [f \in (DOMAIN fields) \cup (DOMAIN UnifiedEventDefaults) |->
        IF f \in DOMAIN fields THEN fields[f] ELSE UnifiedEventDefaults[f]]

\* dataclasses.asdict(event): the tags stay a list
asdict(event) == Put(event, "tags", PyList({event.tags[k] : k \in 1..Len(event.tags)}))

\* UnifiedEvent.to_dict(): the tags become a JSON text
to_dict(event) == Put(event, "tags", PyStr(json_dumps(event.tags)))

(***************************************************************************)
(* backend/core/db.py: EventsDB on the tables events and scrape_logs.      *)
(* A table is the sequence of its rows; every method opens a connection,   *)
(* runs its statements and commits, which is one step.  The values the     *)
(* dataclass types as str are never None, so the NOT NULL columns accept   *)
(* every row the methods write.                                            *)
(***************************************************************************)
\* _map_time_of_day(time_of_day): mapping.get(time_of_day, 'jour')
map_time_of_day(time_of_day) ==
    IF time_of_day \in {"matin", "apres_midi"} THEN "jour"
    ELSE IF time_of_day \in {"soir", "nuit"} THEN time_of_day
    ELSE "jour"

\* _unified_to_db(event): the columns of the row, the tags as json.dumps
\* writes the list
unified_to_db(event) ==
    [ id |-> event.id,
      title |-> event.title,
      description |-> event.description,
      main_category |-> event.category,
      sub_category |-> event.sub_category,
      date |-> event.date_start,
      start_time |-> event.time_start,
      end_time |-> event.time_end,
      time_of_day |-> map_time_of_day(event.time_of_day),
      venue |-> event.location_name,
      address |-> event.address,
      arrondissement |-> event.arrondissement,
      price |-> event.price_from,
      price_max |-> event.price_to,
      source_url |-> IF Truthy(event.ticket_url) THEN event.ticket_url
                     ELSE event.source_event_url,
      source_name |-> event.source_name,
      image_url |-> event.image_url,
      duration |-> NoNum,
      booking_required |-> event.has_direct_ticket_button,
      tags |-> json_dumps(event.tags),
      latitude |-> event.latitude,
      longitude |-> event.longitude,
      verified |-> event.verified ]

\* the columns UPDATE events SET ... writes from data
updated_columns ==
    { "title", "description", "main_category", "sub_category", "date", "start_time",
      "end_time", "time_of_day", "venue", "address", "arrondissement", "price",
      "price_max", "source_url", "source_name", "image_url", "duration",
      "booking_required", "tags", "latitude", "longitude", "verified" }

\* SELECT id FROM events WHERE id = ?: fetchone() is not None
RowExists(table, id) == \E k \in 1..Len(table) : table[k].id = id

\* UPDATE events SET ..., updated_at = now WHERE id = ?
UpdateRow(row, data, now) ==
    [c \in DOMAIN row |->
        IF c \in updated_columns THEN data[c]
        ELSE IF c = "updated_at" THEN now.isoformat
        ELSE row[c]]

UpdateEvents(table, data, now) ==
    [k \in 1..Len(table) |->
        IF table[k].id = data.id THEN UpdateRow(table[k], data, now) ELSE table[k]]

\* INSERT INTO events (...): created_at and updated_at take their default,
\* CURRENT_TIMESTAMP
InsertEvent(table, data, now) ==
    Append(table, Put(Put(data, "created_at", now.current_timestamp),
                      "updated_at", now.current_timestamp))

\* a variant that inserts without asking whether the id is stored
upsert_event_insert(table, event, now) ==
    [table |-> InsertEvent(table, unified_to_db(event), now), inserted |-> TRUE]

\* upsert_event(event) on the table: the table after the call and the value
\* returned, True if inserted, False if updated
upsert_event(table, event, now) ==
    IF RowExists(table, event.id)
    THEN [table |-> UpdateEvents(table, unified_to_db(event), now), inserted |-> FALSE]
    ELSE [table |-> InsertEvent(table, unified_to_db(event), now), inserted |-> TRUE]

\* the loop of upsert_batch from the k-th event on; nows[k] is the clock
\* reading of the k-th upsert
RECURSIVE UpsertFrom(_, _, _, _, _, _)
UpsertFrom(table, events, nows, k, added, updated) ==
    IF k > Len(events) THEN [table |-> table, added |-> added, updated |-> updated]
    ELSE IF upsert_event(table, events[k], nows[k]).inserted
         THEN UpsertFrom(upsert_event(table, events[k], nows[k]).table, events, nows,
                         k + 1, added + 1, updated)
         ELSE UpsertFrom(upsert_event(table, events[k], nows[k]).table, events, nows,
                         k + 1, added, updated + 1)

\* upsert_batch(events): the table after the call and {'added', 'updated'}
upsert_batch(table, events, nows) == UpsertFrom(table, events, nows, 1, 0, 0)

\* a < b for two TEXT values made of digits and '-', as SQLite compares them
\* (byte by byte, '-' before the digits, a prefix before the longer text)
RECURSIVE TextLess(_, _)
TextLess(a, b) ==
    LET code(c) == CHOOSE i \in 1..11 : CharAt("-0123456789", i) = c IN
    IF b = "" THEN FALSE
    ELSE IF a = "" THEN TRUE
    ELSE IF CharAt(a, 1) # CharAt(b, 1) THEN code(CharAt(a, 1)) < code(CharAt(b, 1))
    ELSE TextLess(SubSeq(a, 2, Len(a)), SubSeq(b, 2, Len(b)))

\* (date.today() - timedelta(days=days_before_today)).isoformat() for
\* days_before_today = 1
DayBefore(today) ==
    LET year == IntOf(SubSeq(today, 1, 4))
        month == IntOf(SubSeq(today, 6, 7))
        day == IntOf(SubSeq(today, 9, 10))
    IN  IF day > 1 THEN strftime(year, month, day - 1)
        ELSE IF month > 1 THEN strftime(year, month - 1, DaysInMonth(year, month - 1))
        ELSE strftime(year - 1, 12, 31)

\* DELETE FROM events WHERE date < cutoff
RECURSIVE DeleteBefore(_, _)
DeleteBefore(table, cutoff) ==
    IF table = <<>> THEN <<>>
    ELSE (IF TextLess(table[1].date, cutoff) THEN <<>> ELSE <<table[1]>>)
         \o DeleteBefore(Tail(table), cutoff)

\* delete_past_events(days_before_today=1): the table after the call and
\* cursor.rowcount
delete_past_events(table, today) ==
    [table |-> DeleteBefore(table, DayBefore(today)),
     deleted |-> Len(table) - Len(DeleteBefore(table, DayBefore(today)))]

\* log_scrape(...): INSERT INTO scrape_logs, the other columns at their
\* defaults
log_scrape(logs, source_name, events_found, events_added, events_updated, events_deduplicated, success, now) ==
    Append(logs, [ id |-> Len(logs) + 1, source_name |-> source_name,
                   scraped_at |-> now.current_timestamp,
                   events_found |-> events_found, events_added |-> events_added,
                   events_updated |-> events_updated,
                   events_deduplicated |-> events_deduplicated,
                   success |-> success, error_message |-> NONE,
                   duration_seconds |-> NoNum ])

(***************************************************************************)
(* backend/ingest.py: IngestionPipeline.  The variable pipeline holds the  *)
(* object (extract_tickets, deduplicate, dry_run, stats) together with the *)
(* locals of its run(): source_list, all_events, the index next of the     *)
(* source the loop is at, and the position pc.                             *)
(***************************************************************************)
\* list(SCRAPERS.keys())
SCRAPERS ==
    <<"eventbrite", "sortiraparis", "philharmonie", "opera_paris", "louvre", "orsay",
      "pompidou">>

\* SOURCE_GROUPS[s] for the groups that are lists
SOURCE_GROUPS ==
    [ aggregators |-> <<"eventbrite", "sortiraparis">>,
      venues |-> <<"philharmonie", "opera_paris">>,
      museums |-> <<"louvre", "orsay", "pompidou">> ]

\* list(SCRAPERS.keys()) + ['galleries', 'workshops']
AllSources == SCRAPERS \o <<"galleries", "workshops">>

\* for s in sources: a group adds its sources, 'all' replaces the list and
\* ends the loop, any other name is added as it is
RECURSIVE ExpandSources(_, _, _)
ExpandSources(sources, k, source_list) ==
    IF k > Len(sources) THEN source_list
    ELSE IF sources[k] = "all" THEN AllSources
    ELSE IF sources[k] \in DOMAIN SOURCE_GROUPS
         THEN ExpandSources(sources, k + 1, source_list \o SOURCE_GROUPS[sources[k]])
    ELSE ExpandSources(sources, k + 1, Append(source_list, sources[k]))

\* the source_list of run(sources): None and [] give every source
SourceList(sources) ==
    IF sources = NONE \/ sources = <<>> THEN AllSources
    ELSE ExpandSources(sources, 1, <<>>)

\* IngestionPipeline(extract_tickets=..., deduplicate=..., dry_run=...)
IngestionPipeline(extract_tickets, deduplicate, dry_run) ==
    [ extract_tickets |-> extract_tickets, deduplicate |-> deduplicate,
      dry_run |-> dry_run,
      stats |-> [ sources_processed |-> 0, events_scraped |-> 0, events_added |-> 0,
                  events_updated |-> 0, events_deduplicated |-> 0, errors |-> <<>> ],
      pc |-> "constructed", source_list |-> <<>>, next |-> 1, all_events |-> <<>> ]

\* what _scrape_source(source) does: it returns a list or raises
Returned(events) == [raised |-> FALSE, events |-> events, error |-> NONE]
Raised(error) == [raised |-> TRUE, events |-> <<>>, error |-> error]

\* an unknown source gives a warning and []
KnownSource(source) == InSeq(source, AllSources)

\* a variant in which the exception leaves the loop
AfterScrape_stop(run, outcome) ==
    IF outcome.raised
    THEN [run EXCEPT !.stats.errors =
                         Append(@, [source |-> run.source_list[run.next],
                                    error |-> outcome.error]),
                     !.next = Len(run.source_list) + 1, !.pc = "scrape"]
    ELSE [run EXCEPT !.all_events = @ \o outcome.events,
                     !.stats.sources_processed = @ + 1,
                     !.next = @ + 1, !.pc = "scrape"]

\* the body of the loop once _scrape_source has returned or raised:
\* all_events.extend(events) and sources_processed += 1, or the except clause
AfterScrape(run, outcome) ==
    IF outcome.raised
    THEN [run EXCEPT !.stats.errors =
                         Append(@, [source |-> run.source_list[run.next],
                                    error |-> outcome.error]),
                     !.next = @ + 1, !.pc = "scrape"]
    ELSE [run EXCEPT !.all_events = @ \o outcome.events,
                     !.stats.sources_processed = @ + 1,
                     !.next = @ + 1, !.pc = "scrape"]

\* extractor.extract_ticket_url(source_url) for the three answers the pages
\* of a run give: no button found, a direct button found, the request fails
extract_ticket_url(answer, source_url) ==
    IF source_url = "" THEN [ticket_url |-> NONE, has_direct |-> FALSE]
    ELSE IF answer = "button"
         THEN [ticket_url |-> source_url \o "/tickets", has_direct |-> TRUE]
    ELSE [ticket_url |-> source_url, has_direct |-> FALSE]

\* the body of the loop of _extract_ticket_urls for one event
ExtractTicket(event, answer) ==
    IF event.has_direct_ticket_button /\ event.ticket_url # event.source_event_url
    THEN event
    ELSE IF Truthy(extract_ticket_url(answer, event.source_event_url).ticket_url)
         THEN [event EXCEPT
                  !.ticket_url = extract_ticket_url(answer, event.source_event_url).ticket_url,
                  !.has_direct_ticket_button =
                      extract_ticket_url(answer, event.source_event_url).has_direct]
    ELSE event

\* _extract_ticket_urls(events): the extractor could not start ("failed"),
\* or every page answers
extract_ticket_urls(events, answer) ==
    IF answer = "failed" THEN events
    ELSE [k \in 1..Len(events) |-> ExtractTicket(events[k], answer)]

\* json.loads(text) of the text of a list of str: the strings between the
\* quotes, in their order
RECURSIVE json_loads_list(_, _, _)
json_loads_list(text, i, current) ==
    IF i > Len(text) THEN <<>>
    ELSE IF CharAt(text, i) = "\""
         THEN IF current = NONE THEN json_loads_list(text, i + 1, "")
              ELSE <<current>> \o json_loads_list(text, i + 1, NONE)
    ELSE IF current = NONE THEN json_loads_list(text, i + 1, NONE)
    ELSE json_loads_list(text, i + 1, current \o CharAt(text, i))

\* the lists list(a_set) can be: the items in any order
Orders(items) ==
    {q \in [1..Cardinality(items) -> items] :
        \A i, j \in 1..Cardinality(items) : i # j => q[i] # q[j]}

\* UnifiedEvent.from_dict(data): the events it can build, the tags decoded
\* from a JSON text or the list merge_events left
from_dict(data) ==
    IF data.tags.kind = "str"
    THEN {Put(data, "tags", json_loads_list(data.tags.text, 1, NONE))}
    ELSE {Put(data, "tags", tags) : tags \in Orders(data.tags.items)}

\* [UnifiedEvent.from_dict(e) for e in all_events]
RECURSIVE FromDicts(_)
FromDicts(dicts) ==
    IF dicts = <<>> THEN {<<>>}
    ELSE {<<first>> \o rest : first \in from_dict(dicts[1]), rest \in FromDicts(Tail(dicts))}

\* self.deduplicator.deduplicate_events([e.to_dict() for e in all_events])
DeduplicateAll(all_events) ==
    deduplicate_events([k \in 1..Len(all_events) |-> to_dict(all_events[k])])

\* a variant that saves also in a dry run
ShouldSave_always(dry_run, all_events) == all_events # <<>>

\* if not self.dry_run and all_events
ShouldSave(dry_run, all_events) == ~dry_run /\ all_events # <<>>

\* result = self.db.upsert_batch(all_events), every upsert at the reading now
SaveAll(table, all_events, now) ==
    upsert_batch(table, all_events, [k \in 1..Len(all_events) |-> now])

\* _log_run(): for source in self.stats.get('sources', []): log_scrape(...)
RECURSIVE LogSources(_, _, _, _)
LogSources(logs, sources, stats, now) ==
    IF sources = <<>> THEN logs
    ELSE LogSources(log_scrape(logs, sources[1], stats.events_scraped, stats.events_added,
                               stats.events_updated, stats.events_deduplicated,
                               Len(stats.errors) = 0, now),
                    Tail(sources), stats, now)

log_run(logs, stats, now) == LogSources(logs, Get(stats, "sources", <<>>), stats, now)

(***************************************************************************)
(* Calls of normalize_event                                                *)
(***************************************************************************)
MaxPricePieces == 3

PricePieces == {"10€", "25 eur", "0", "12,50", " - ", "Gratuit", "libre", "ca", " ", "€"}

\* the strings made of at most n pieces
RECURSIVE Texts(_, _)
Texts(pieces, n) ==
    IF n = 0 THEN {""}
    ELSE LET shorter == Texts(pieces, n - 1)
         IN  shorter \cup {t \o p : t \in shorter, p \in pieces}

PriceTexts == {NONE} \cup Texts(PricePieces, MaxPricePieces)

\* what an adapter says about the price: a text to parse, or its own numbers
ScrapedPrices ==
    [price_text : PriceTexts, price_from : {NoNum}, price_to : {NoNum}, is_free : BOOLEAN]
    \cup [price_text : {NONE, "Gratuit"}, price_from : {Num(0), Num(1000)},
          price_to : {NoNum, Num(2500)}, is_free : BOOLEAN]

ScrapedRest == {
    [ title |-> " Jazz  au Sunset ", description |-> "Soirée jazz", source_name |-> "sortiraparis",
      source_event_url |-> "https://s/1", location_name |-> NONE, image_url |-> NONE,
      ticket_url |-> NONE, has_direct_ticket_button |-> FALSE, organizer_name |-> NONE,
      raw_category |-> NONE, raw_tags |-> <<>> ],
    [ title |-> "Monet", description |-> "", source_name |-> "orsay",
      source_event_url |-> "https://o/2", location_name |-> "Musée d'Orsay", image_url |-> "https://o/i",
      ticket_url |-> "https://o/t", has_direct_ticket_button |-> TRUE, organizer_name |-> NONE,
      raw_category |-> " Exposition", raw_tags |-> <<"musee", "art">> ] }

Merge2(r, q) == [f \in (DOMAIN r) \cup (DOMAIN q) |-> IF f \in DOMAIN r THEN r[f] ELSE q[f]]

\* when and where the event takes place, as the adapter read it
ScrapedWhenWhere ==
    [ date_start : {NONE, "15 décembre 2025", "15/12/2025", "15 déc 25", "15 dec",
                    "2025-02-30", "32/13/2025", "demain"},
      date_end : {NONE, "20/12/2025"},
      time_start : {NONE, "20h30", "at 8pm", "9h"},
      time_end : {NONE},
      address : {NONE, "Place de la Bastille, 75012 Paris", "3 rue Oberkampf 11e"} ]

PlainWhenWhere ==
    [ date_start |-> "15/12/2025", date_end |-> NONE, time_start |-> "20h30",
      time_end |-> "23h", address |-> "Place de la Bastille, 75012 Paris" ]

PlainPrice == [price_text |-> "10€", price_from |-> NoNum, price_to |-> NoNum, is_free |-> FALSE]

\* the events whose price varies, and the events whose date, time and
\* address vary and that are normalized at every reading of the clock
PricedEvents ==
    {Merge2(Merge2(r, q), PlainWhenWhere) : r \in ScrapedPrices, q \in ScrapedRest}
PlacedEvents ==
    {Merge2(Merge2(PlainPrice, q), w) : q \in ScrapedRest, w \in ScrapedWhenWhere}
ScrapedEvents == PricedEvents \cup PlacedEvents

\* readings of the clock: two instants of one day, the next day, the next year
Nows == { [date |-> "2026-11-01", isoformat |-> "2026-11-01T10:30:00.000123"],
          [date |-> "2026-11-01", isoformat |-> "2026-11-01T18:05:41.730000"],
          [date |-> "2026-11-02", isoformat |-> "2026-11-02T00:00:07.000001"],
          [date |-> "2027-01-01", isoformat |-> "2027-01-01T09:15:00.500000"] }

InitNormalize ==
    /\ op = "call_normalize_event"
    /\ args \in [scraped : PricedEvents, category_override : {NONE},
                 now : {CHOOSE now \in Nows : now.isoformat = "2026-11-01T10:30:00.000123"}]
              \cup [scraped : PlacedEvents, category_override : {NONE, "ateliers"}, now : Nows]
    /\ ret = NONE
    /\ NoDatabase

NormalizeEvent ==
    /\ op = "call_normalize_event"
    /\ op' = "normalize_event"
    /\ ret' = normalize_event(args.scraped, args.category_override, args.now)
    /\ UNCHANGED <<args, pipeline_vars>>

(***************************************************************************)
(* Calls of EventCategorizer.categorize                                    *)
(***************************************************************************)
Titles == {"Exposition Monet", "Concert Jazz au Sunset", "Soirée Jazz - Sunset Sunside",
           "Atelier peinture", "Monet", "Rencontre autour du livre", "Stand-Up Night"}
Descriptions == {"", "Live music and cocktails"}
Venues == {"Paris", "Philharmonie de Paris", "Le Bar à Vin"}

ReplyContents == {
    NONE, "", "Sorry, I cannot classify this.",
    "{\"category\": \"musique\", \"sub_category\": \"jazz\"}",
    "'''json\n{\"category\": \"sport\"}\n'''",
    "{\"sub_category\": \"jazz\"}",
    "{\"category\": \"cinema\", \"sub_category\": null}",
    "{\"category\": null}",
    "  {\"category\": \"Musique\"} ",
    "[\"musique\"]",
    "''' musique '''",
    "'''{\"category\": \"sport\"} or {\"category\": \"cinema\", \"sub_category\": null}'''" }

ClassifierReplies ==
    {[raises |-> TRUE, content |-> NONE]} \cup [raises : {FALSE}, content : ReplyContents]

InitCategorize ==
    /\ op = "call_categorize"
    /\ args \in [client : BOOLEAN, reply : ClassifierReplies, title : Titles,
                 description : Descriptions, source_name : {"sortiraparis"},
                 venue_name : Venues]
    /\ ret = NONE
    /\ NoDatabase

Categorize ==
    /\ op = "call_categorize"
    /\ op' = "categorize"
    /\ ret' = categorize(args.client, args.reply, args.title, args.description,
                         args.source_name, args.venue_name)
    /\ UNCHANGED <<args, pipeline_vars>>

(***************************************************************************)
(* Calls of EventDeduplicator.deduplicate_events                           *)
(***************************************************************************)
MaxEvents == 3

RECURSIVE Repeat(_, _)
Repeat(text, n) == IF n = 0 THEN "" ELSE text \o Repeat(text, n - 1)

ShortDescription == "Jazz"
MediumDescription == "Concert de jazz au Sunset Sunside, rue des Lombards, Paris"
LongDescription == Repeat("Une soirée jazz au Sunset. ", 8)

\* the record normalize_event builds for a posting, the id from its fields
Posting(title, date_start, location_name, source_name, more) ==
    UnifiedEvent(Merge2(more,
        [ id |-> generate_id(title, date_start, location_name, source_name),
          title |-> title, description |-> "", category |-> "musique",
          date_start |-> date_start, location_name |-> location_name,
          source_name |-> source_name,
          source_event_url |-> "https://" \o source_name \o "/e",
          ticket_url |-> "https://" \o source_name \o "/e" ]))

SunsetListing ==
    Posting("Concert Jazz au Sunset", "2025-12-15", "Sunset Sunside Jazz", "sortiraparis",
            [ description |-> ShortDescription, tags |-> <<"jazz">>,
              address |-> "60 rue des Lombards, 75001 Paris" ])

SunsetOfficial ==
    Posting("Jazz - Sunset!", "2025-12-15", "Le Sunset Sunside Jazz Club", "philharmonie",
            [ description |-> LongDescription, tags |-> <<"live", "jazz">>,
              ticket_url |-> "https://philharmonie/t", has_direct_ticket_button |-> TRUE,
              image_url |-> "https://philharmonie/i", price_from |-> 2500,
              time_start |-> "20:30" ])

SunsetNextDay ==
    Posting("Concert Jazz au Sunset", "2025-12-16", "Sunset Sunside Jazz", "sortiraparis",
            [ description |-> ShortDescription, tags |-> <<"jazz">> ])

SunsetChatelet ==
    Posting("Jazz Sunset", "2025-12-15", "Sunset Sunside Jazz Club Châtelet", "opera",
            [ description |-> MediumDescription, tags |-> <<"club">>,
              image_url |-> "https://opera/i", price_from |-> 3000,
              price_to |-> Num(4500), organizer_name |-> "Sunset" ])

SunsideSession ==
    Posting("Jazz Sunset Sunside", "2025-12-15", "Sunset Sunside Jazz", "sortiraparis",
            [ tags |-> <<"session">> ])

\* the same posting as SunsetListing scraped a second time: the same id
SunsetListingAgain ==
    Posting("Concert Jazz au Sunset", "2025-12-15", "Sunset Sunside Jazz", "sortiraparis",
            [ description |-> MediumDescription, tags |-> <<"sunset">> ])

SunsetElsewhere ==
    Posting("Concert Jazz au Sunset", "2025-12-15", "New Morning", "sortiraparis",
            [ tags |-> <<"morning">>, address |-> "60 Rue des Lombards 75001" ])

ParisParis ==
    Posting("Paris", "2025-12-16", "Paris", "louvre", [ tags |-> <<"paris">> ])

\* as complete as SunsetListing, from another source
SunsetAgenda ==
    Posting("Jazz au Sunset", "2025-12-15", "Sunset Sunside Jazz", "parisinfo",
            [ description |-> ShortDescription, tags |-> <<"agenda">> ])

\* a venue name between those of SunsetListing and SunsetChatelet, and a
\* completeness between theirs
SunsetClubNight ==
    Posting("Jazz Sunset", "2025-12-15", "Le Sunset Sunside Jazz Club", "parisinfo",
            [ tags |-> <<"night">>, image_url |-> "https://parisinfo/i" ])

DedupEvents == { SunsetListing, SunsetOfficial, SunsetNextDay, SunsetChatelet,
                 SunsideSession, SunsetListingAgain, SunsetElsewhere, ParisParis,
                 SunsetAgenda, SunsetClubNight }

EventLists == UNION {[1..n -> DedupEvents] : n \in 1..MaxEvents}

\* the pipeline hands over [e.to_dict() for e in all_events]; a list of
\* records whose tags are lists is what a previous call returns
InitDeduplicate ==
    /\ op = "call_deduplicate_events"
    /\ \E all_events \in EventLists, serialized \in BOOLEAN :
          args = [events |-> [k \in 1..Len(all_events) |->
                                 IF serialized THEN to_dict(all_events[k])
                                 ELSE asdict(all_events[k])],
                  serialized |-> serialized]
    /\ ret = NONE
    /\ NoDatabase

DeduplicateEvents ==
    /\ op = "call_deduplicate_events"
    /\ op' = "deduplicate_events"
    /\ ret' = deduplicate_events(args.events)
    /\ UNCHANGED <<args, pipeline_vars>>

(***************************************************************************)
(* Calls of EventDeduplicator.are_duplicates                               *)
(***************************************************************************)
MatchTitles == {"Concert Jazz au Sunset", "Jazz - Sunset!", "Jazz Sunset Sunside"}
MatchDates == {"2025-12-15", "2025-12-16"}
MatchLocations == {"Sunset Sunside Jazz", "Le Sunset Sunside Jazz Club", "New Morning",
                   "Paris", ""}
MatchAddresses == {"", "60 rue des Lombards, 75001 Paris", "60 Rue des Lombards 75001",
                   "10 rue des Lombards, 75001 Paris"}

MatchEvents ==
    {asdict(Posting(title, date_start, location_name, "sortiraparis", [address |-> address])) :
        title \in MatchTitles, date_start \in MatchDates,
        location_name \in MatchLocations, address \in MatchAddresses}

InitAreDuplicates ==
    /\ op = "call_are_duplicates"
    /\ args \in [event1 : MatchEvents, event2 : MatchEvents]
    /\ ret = NONE
    /\ NoDatabase

AreDuplicates ==
    /\ op = "call_are_duplicates"
    /\ op' = "are_duplicates"
    /\ ret' = are_duplicates(args.event1, args.event2)
    /\ UNCHANGED <<args, pipeline_vars>>

(***************************************************************************)
(* Calls of EventDeduplicator.merge_events                                 *)
(***************************************************************************)
MergeDescriptions == {"", ShortDescription, MediumDescription}

MergeTickets == {
    [ticket_url |-> NONE, has_direct_ticket_button |-> FALSE],
    [ticket_url |-> "https://sortiraparis/t", has_direct_ticket_button |-> FALSE],
    [ticket_url |-> "https://philharmonie/t", has_direct_ticket_button |-> TRUE],
    [ticket_url |-> NONE, has_direct_ticket_button |-> TRUE] }

MergePrices == {
    [price_from |-> 0, price_to |-> NoNum, is_free |-> TRUE],
    [price_from |-> 0, price_to |-> NoNum, is_free |-> FALSE],
    [price_from |-> 1500, price_to |-> Num(2500), is_free |-> FALSE],
    [price_from |-> 2000, price_to |-> Num(0), is_free |-> FALSE] }

MergeDetails == {
    [image_url |-> NONE, address |-> "", arrondissement |-> NoNum, latitude |-> NoNum,
     longitude |-> NoNum, time_start |-> NONE, time_end |-> NONE, organizer_name |-> NONE],
    [image_url |-> "https://sortiraparis/i", address |-> "60 rue des Lombards, 75001 Paris",
     arrondissement |-> Num(1), latitude |-> Num(4886), longitude |-> Num(235),
     time_start |-> "20:30", time_end |-> "23:00", organizer_name |-> "Sunset"],
    [image_url |-> "https://philharmonie/i", address |-> "221 avenue Jean-Jaurès, 75019 Paris",
     arrondissement |-> Num(19), latitude |-> Num(4889), longitude |-> Num(239),
     time_start |-> "21:00", time_end |-> "", organizer_name |-> "Philharmonie"] }

MergeTagValues == {PyList({"jazz"}), PyStr(json_dumps(<<"live", "jazz">>))}

MergeSides ==
    {Merge2([description |-> description, tags |-> tags],
            Merge2(ticket, Merge2(price, Merge2(details,
                Posting("Concert Jazz au Sunset", "2025-12-15", "Sunset Sunside Jazz",
                        "sortiraparis", <<>>))))) :
        description \in MergeDescriptions, tags \in MergeTagValues, ticket \in MergeTickets,
        price \in MergePrices, details \in MergeDetails}

InitMergeEvents ==
    /\ op = "call_merge_events"
    /\ args \in [canonical : MergeSides, duplicate : MergeSides]
    /\ ret = NONE
    /\ NoDatabase

MergeEvents ==
    /\ op = "call_merge_events"
    /\ op' = "merge_events"
    /\ ret' = merge_events(args.canonical, args.duplicate)
    /\ UNCHANGED <<args, pipeline_vars>>

(***************************************************************************)
(* Calls of parse_price                                                    *)
(***************************************************************************)
ParsePriceTexts == PriceTexts \cup {"10€ - 25€", "De 10€ à 25€", "10 euros / 25 euros",
                                    "Tarif libre", "5€, 8€ et 12€"}

InitParsePrice ==
    /\ op = "call_parse_price"
    /\ args \in [price_text : ParsePriceTexts]
    /\ ret = NONE
    /\ NoDatabase

ParsePrice ==
    /\ op = "call_parse_price"
    /\ op' = "parse_price"
    /\ ret' = parse_price(args.price_text)
    /\ UNCHANGED <<args, pipeline_vars>>

(***************************************************************************)
(* Calls of normalize_time and get_time_of_day                             *)
(***************************************************************************)
TimeConnectors == {"", "at ", "from ", "à ", "de ", "dès ", "a ", "à", "AT ", "vers "}

TimeBodies == {"8pm", "8 pm", "8:30 pm", "8:30am", "12am", "12pm", "12:30am", "13pm",
               "20:30", "20h30", "20h", "9h", "7h5", "20:30:00", "25h99", "24h", "0h",
               "5h59", "6h", "11:59", "12h", "17h59", "18h", "22:59", "23h", "23:30",
               "8 PM", "123h", "midi", ""}

TimeTexts == {NONE} \cup {c \o b : c \in TimeConnectors, b \in TimeBodies}

InitNormalizeTime ==
    /\ op = "call_normalize_time"
    /\ args \in [time_str : TimeTexts]
    /\ ret = NONE
    /\ NoDatabase

NormalizeTime ==
    /\ op = "call_normalize_time"
    /\ op' = "normalize_time"
    /\ ret' = normalize_time(args.time_str)
    /\ UNCHANGED <<args, pipeline_vars>>

InitTimeOfDay ==
    /\ op = "call_get_time_of_day"
    /\ args \in [time_str : TimeTexts]
    /\ ret = NONE
    /\ NoDatabase

TimeOfDay ==
    /\ op = "call_get_time_of_day"
    /\ op' = "get_time_of_day"
    /\ ret' = get_time_of_day(args.time_str)
    /\ UNCHANGED <<args, pipeline_vars>>

(***************************************************************************)
(* Calls of extract_arrondissement                                         *)
(***************************************************************************)
AddressStreets == {"", "Place de la Bastille", "12 rue de Paris", "21e étage", "3e arr",
                   "Paris 5", "PARIS 7ème", "75000", "BP 75099"}

AddressTowns == {"", "75012 Paris", "75001", "75020 Paris", "75021 Paris", "75000 Paris",
                 "75116 Paris", "Paris 15", "Paris", "1er arrondissement", "Paris 1524",
                 "93100 Montreuil", "18È"}

Addresses ==
    {NONE} \cup {IF s = "" \/ t = "" THEN s \o t ELSE s \o ", " \o t :
                     s \in AddressStreets, t \in AddressTowns}

InitExtractArrondissement ==
    /\ op = "call_extract_arrondissement"
    /\ args \in [address : Addresses]
    /\ ret = NONE
    /\ NoDatabase

ExtractArrondissement ==
    /\ op = "call_extract_arrondissement"
    /\ op' = "extract_arrondissement"
    /\ ret' = extract_arrondissement(args.address)
    /\ UNCHANGED <<args, pipeline_vars>>

(***************************************************************************)
(* Calls of normalize_date                                                 *)
(***************************************************************************)
french_month_names == <<"janvier", "février", "mars", "avril", "mai", "juin", "juillet",
                        "août", "septembre", "octobre", "novembre", "décembre">>

DateDays == {"1", "15", "29", "31"}
DateYears == {"2024", "2025"}

\* '<day> <French month name> <four-digit year>'
LongDateTexts ==
    {d \o " " \o french_month_names[m] \o " " \o y :
        d \in DateDays, m \in 1..12, y \in DateYears}

OtherDateTexts ==
    {"2025-12-15", "15/12/2025", "15-12-2025", "1/2/2025", "15/12/25", "25-12-15",
     "15-12-25", "15 déc 25", "15 dec 25", "15 mai 25", "15 juin 25", "15 dec",
     "29 fév", "28 fév", "mon 15 dec 25", "lundi 15 décembre 2025", "15 Décembre 2025",
     "2025-02-30", "31/04/2025", "32/13/2025", "30/02/25", "2025-12-15T20:30:00",
     "du 15/12/2025 au 20/12/2025", "15.12.2025", "demain", ""}

DateTexts == {NONE} \cup LongDateTexts \cup OtherDateTexts

NowYears == {2024, 2026}

InitNormalizeDate ==
    /\ op = "call_normalize_date"
    /\ args \in [date_str : DateTexts, now_year : NowYears]
    /\ ret = NONE
    /\ NoDatabase

NormalizeDate ==
    /\ op = "call_normalize_date"
    /\ op' = "normalize_date"
    /\ ret' = normalize_date(args.date_str, args.now_year)
    /\ UNCHANGED <<args, pipeline_vars>>

(***************************************************************************)
(* Calls of EventsDB.upsert_event and EventsDB.upsert_batch, one after the *)
(* other on one database that starts with the empty tables _ensure_tables  *)
(* creates                                                                 *)
(***************************************************************************)
\* readings of the clock: datetime.now().isoformat() and SQLite's
\* CURRENT_TIMESTAMP (UTC) at that moment
DbNows ==
    { [date |-> "2025-12-01", isoformat |-> "2025-12-01T10:30:00.000123",
       current_timestamp |-> "2025-12-01 09:30:00"],
      [date |-> "2025-12-02", isoformat |-> "2025-12-02T18:05:41.730000",
       current_timestamp |-> "2025-12-02 17:05:41"] }

\* two scrapes of one posting (one id) and another event
StoredEvents == {SunsetListing, SunsetListingAgain, SunsetOfficial}

MaxBatch == 2

Batches == UNION {[1..n -> StoredEvents] : n \in 0..MaxBatch}

InitUpsert ==
    /\ op = "EventsDB"
    /\ args = [db_path |-> "real_events.db"]
    /\ ret = NONE
    /\ events_table = <<>>
    /\ scrape_logs = <<>>
    /\ pipeline = NONE

UpsertEvent ==
    /\ op \in {"EventsDB", "upsert_event", "upsert_batch"}
    /\ \E event \in StoredEvents, now \in DbNows :
          LET done == upsert_event(events_table, event, now) IN
          /\ op' = "upsert_event"
          /\ args' = [event |-> event, now |-> now]
          /\ events_table' = done.table
          /\ ret' = done.inserted
    /\ UNCHANGED <<scrape_logs, pipeline>>

UpsertBatch ==
    /\ op \in {"EventsDB", "upsert_event", "upsert_batch"}
    /\ \E events \in Batches :
          \E nows \in [1..Len(events) -> DbNows] :
             LET done == upsert_batch(events_table, events, nows) IN
             /\ op' = "upsert_batch"
             /\ args' = [events |-> events, nows |-> nows]
             /\ events_table' = done.table
             /\ ret' = [added |-> done.added, updated |-> done.updated]
    /\ UNCHANGED <<scrape_logs, pipeline>>

(***************************************************************************)
(* Calls of IngestionPipeline.run                                          *)
(***************************************************************************)
SortirSunset ==
    Posting("Concert Jazz au Sunset", "2025-12-15", "Sunset Sunside Jazz", "sortiraparis",
            [ description |-> ShortDescription,
              address |-> "60 rue des Lombards, 75001 Paris" ])

\* the same event on the site of the venue: a duplicate of SortirSunset
PhilharmonieSunset ==
    Posting("Jazz - Sunset!", "2025-12-15", "Le Sunset Sunside Jazz Club", "philharmonie",
            [ description |-> MediumDescription, ticket_url |-> "https://philharmonie/t",
              has_direct_ticket_button |-> TRUE, price_from |-> 2500,
              time_start |-> "20:30", time_of_day |-> "soir" ])

LouvreExpo ==
    Posting("Exposition Vermeer", "2025-12-20", "Musee du Louvre", "louvre",
            [ category |-> "arts_visuels", tags |-> <<"expo">>, time_of_day |-> "matin" ])

\* an event that is over when the pipeline runs
OrsayPast ==
    Posting("Nocturne au musee", "2025-11-20", "Musee d'Orsay", "orsay",
            [ category |-> "arts_visuels", time_of_day |-> "nuit" ])

WorkshopPottery ==
    Posting("Atelier poterie", "2025-12-18", "Wecandoo", "wecandoo",
            [ category |-> "ateliers", price_from |-> 4500 ])

\* what the scraper of a source finds when it does not fail
ScrapeResults(source) ==
    CASE source = "sortiraparis" -> <<SortirSunset>>
      [] source = "philharmonie" -> <<PhilharmonieSunset>>
      [] source = "louvre" -> <<LouvreExpo>>
      [] source = "orsay" -> <<OrsayPast>>
      [] source = "workshops" -> <<WorkshopPottery>>
      [] OTHER -> <<>>

\* _scrape_source(source): an unknown source gives []; the scrapers of
\* galleries and workshops catch the failure of each site and give what the
\* other sites gave; a scraper of SCRAPERS returns its events or raises
ScrapeOutcomes(source) ==
    IF ~KnownSource(source) THEN {Returned(<<>>)}
    ELSE IF source \in {"galleries", "workshops"}
         THEN {Returned(ScrapeResults(source)), Returned(<<>>)}
    ELSE {Returned(ScrapeResults(source)), Raised("scrape failed")}

\* the answers of the ticket pages of a run
TicketAnswers == {"failed", "none", "button"}

\* the sources argument of run()
SourcesArguments ==
    { NONE, <<"museums">>, <<"louvre", "nosuch", "sortiraparis">>,
      <<"aggregators", "venues", "workshops">>, <<"orsay", "all", "louvre">> }

\* the options main() passes: extract_tickets, deduplicate, dry_run
PipelineOptions ==
    { <<TRUE, TRUE, FALSE>>, <<TRUE, TRUE, TRUE>>, <<FALSE, TRUE, FALSE>>,
      <<TRUE, FALSE, FALSE>>, <<FALSE, FALSE, TRUE>> }

\* the reading of the clock during the run
RunNow == CHOOSE now \in DbNows : now.date = "2025-12-01"

\* an earlier scrape of SortirSunset and an event stored long ago
SortirSunsetBefore ==
    Posting("Concert Jazz au Sunset", "2025-12-15", "Sunset Sunside Jazz", "sortiraparis",
            <<>>)

StoredLongAgo ==
    Posting("Vernissage", "2025-11-10", "Galerie Perrotin", "galerie_perrotin", <<>>)

EarlierNow ==
    [date |-> "2025-11-05", isoformat |-> "2025-11-05T08:00:00.000000",
     current_timestamp |-> "2025-11-05 07:00:00"]

\* the events table before the run: new, or left by an earlier run
StoredTables ==
    { <<>>,
      upsert_batch(<<>>, <<SortirSunsetBefore, StoredLongAgo>>,
                   <<EarlierNow, EarlierNow>>).table }

InitIngest ==
    /\ op = "call_run"
    /\ args \in [sources : SourcesArguments, now : {RunNow}]
    /\ ret = NONE
    /\ events_table \in StoredTables
    /\ scrape_logs = <<>>
    /\ pipeline \in {IngestionPipeline(o[1], o[2], o[3]) : o \in PipelineOptions}

\* run(): the source list is determined
RunStart ==
    /\ op = "call_run" /\ pipeline.pc = "constructed"
    /\ pipeline' = [pipeline EXCEPT !.source_list = SourceList(args.sources),
                                    !.all_events = <<>>, !.next = 1, !.pc = "scrape"]
    /\ UNCHANGED <<op, args, ret, events_table, scrape_logs>>

\* for source in source_list: try: events = self._scrape_source(source)
ScrapeSource ==
    /\ op = "call_run" /\ pipeline.pc = "scrape"
    /\ pipeline.next <= Len(pipeline.source_list)
    /\ ret' \in ScrapeOutcomes(pipeline.source_list[pipeline.next])
    /\ pipeline' = [pipeline EXCEPT !.pc = "scraped"]
    /\ UNCHANGED <<op, args, events_table, scrape_logs>>

\* the rest of the try statement: extend and count, or the except clause
HandleScrape ==
    /\ op = "call_run" /\ pipeline.pc = "scraped"
    /\ pipeline' = AfterScrape(pipeline, ret)
    /\ UNCHANGED <<op, args, ret, events_table, scrape_logs>>

\* the stats and the list after the ticket extraction, for the answer the
\* ticket pages give
Extracted(run, answer) ==
    [run EXCEPT !.stats.events_scraped = Len(run.all_events),
                !.all_events = IF run.extract_tickets /\ run.all_events # <<>>
                               THEN extract_ticket_urls(run.all_events, answer)
                               ELSE run.all_events]

\* the stats and the lists all_events can be after the deduplication
Deduplicated(run, found) ==
    {[run EXCEPT !.stats.events_deduplicated = Len(found.duplicates),
                 !.all_events = converted, !.pc = "save"] :
        converted \in FromDicts(found.events)}

AfterDeduplicate(run) ==
    IF run.deduplicate /\ run.all_events # <<>>
    THEN Deduplicated(run, DeduplicateAll(run.all_events))
    ELSE {[run EXCEPT !.pc = "save"]}

\* after the loop: events_scraped, the ticket extraction, the deduplication
ProcessEvents ==
    /\ op = "call_run" /\ pipeline.pc = "scrape"
    /\ pipeline.next > Len(pipeline.source_list)
    /\ \E answer \in TicketAnswers :
          pipeline' \in AfterDeduplicate(Extracted(pipeline, answer))
    /\ UNCHANGED <<op, args, ret, events_table, scrape_logs>>

\* the table and the stats after the save and the clean-up
Saved(run, table, done, now) ==
    [ table |-> delete_past_events(done.table, now.date).table,
      stats |-> [run.stats EXCEPT !.events_added = done.added,
                                  !.events_updated = done.updated] ]

Stored(run, table, now) ==
    IF ShouldSave(run.dry_run, run.all_events)
    THEN Saved(run, table, SaveAll(table, run.all_events, now), now)
    ELSE IF run.dry_run THEN [table |-> table, stats |-> run.stats]
    ELSE [table |-> delete_past_events(table, now.date).table, stats |-> run.stats]

Finished(run, stored, logs, now) ==
    [ pipeline |-> [run EXCEPT !.stats = stored.stats, !.pc = "done"],
      events_table |-> stored.table,
      scrape_logs |-> log_run(logs, stored.stats, now) ]

\* the save unless dry_run, the clean-up unless dry_run, _log_run() and
\* return self.stats
SaveEvents ==
    /\ op = "call_run" /\ pipeline.pc = "save"
    /\ op' = "run"
    /\ pipeline' = Finished(pipeline, Stored(pipeline, events_table, args.now),
                            scrape_logs, args.now).pipeline
    /\ events_table' = Finished(pipeline, Stored(pipeline, events_table, args.now),
                                scrape_logs, args.now).events_table
    /\ scrape_logs' = Finished(pipeline, Stored(pipeline, events_table, args.now),
                               scrape_logs, args.now).scrape_logs
    /\ ret' = Finished(pipeline, Stored(pipeline, events_table, args.now),
                       scrape_logs, args.now).pipeline.stats
    /\ UNCHANGED args

(***************************************************************************)
(* Specifications                                                          *)
(***************************************************************************)
Init == InitNormalize \/ InitCategorize \/ InitDeduplicate \/ InitAreDuplicates
           \/ InitMergeEvents \/ InitParsePrice \/ InitNormalizeTime
           \/ InitTimeOfDay \/ InitExtractArrondissement \/ InitNormalizeDate
           \/ InitUpsert \/ InitIngest

Next == NormalizeEvent \/ Categorize \/ DeduplicateEvents \/ AreDuplicates \/ MergeEvents
           \/ ParsePrice \/ NormalizeTime \/ TimeOfDay \/ ExtractArrondissement
           \/ NormalizeDate \/ UpsertEvent \/ UpsertBatch
           \/ RunStart \/ ScrapeSource \/ HandleScrape \/ ProcessEvents \/ SaveEvents

Spec == Init /\ [][Next]_vars

SpecNormalize == InitNormalize /\ [][NormalizeEvent]_vars

SpecCategorize == InitCategorize /\ [][Categorize]_vars

SpecDeduplicate == InitDeduplicate /\ [][DeduplicateEvents]_vars

SpecAreDuplicates == InitAreDuplicates /\ [][AreDuplicates]_vars

SpecMergeEvents == InitMergeEvents /\ [][MergeEvents]_vars

SpecParsePrice == InitParsePrice /\ [][ParsePrice]_vars

SpecNormalizeTime == InitNormalizeTime /\ [][NormalizeTime]_vars

SpecTimeOfDay == InitTimeOfDay /\ [][TimeOfDay]_vars

SpecExtractArrondissement == InitExtractArrondissement /\ [][ExtractArrondissement]_vars

SpecNormalizeDate == InitNormalizeDate /\ [][NormalizeDate]_vars

SpecUpsert == InitUpsert /\ [][UpsertEvent \/ UpsertBatch]_vars

SpecIngest ==
    InitIngest /\ [][RunStart \/ ScrapeSource \/ HandleScrape \/ ProcessEvents
                        \/ SaveEvents]_vars

(***************************************************************************)
(* Properties                                                              *)
(***************************************************************************)

\* C1: for every ScrapedEvent given to normalize_event, the returned
\* UnifiedEvent satisfies: is_free implies price_from = 0.
C1_FreeImpliesZeroPrice ==
    op = "normalize_event" => (ret.is_free => ret.price_from = 0)

\* The part of C1 that the code keeps: a price taken from price_text by
\* parse_price is zero whenever the event is free.
ParsedPriceFreeImpliesZero ==
    (op = "normalize_event" /\ args.scraped.price_from = NoNum)
        => (ret.is_free => ret.price_from = 0)

\* the classifier's reply, as categorize reads it
ReplyDocument(reply) ==
    IF Contains(Strip(reply.content), FENCE)
    THEN SearchBraces(Strip(reply.content)) ELSE Strip(reply.content)
ReplyIsJsonObject(reply) ==
    /\ ~reply.raises /\ reply.content # NONE
    /\ ReplyDocument(reply) # NONE
    /\ IsJson(ReplyDocument(reply))
    /\ json_loads(ReplyDocument(reply)).is_dict
ReplyCategoryOutsideSet(reply) ==
    /\ ReplyIsJsonObject(reply)
    /\ json_loads(ReplyDocument(reply)).category # ABSENT
    /\ ~InSeq(json_loads(ReplyDocument(reply)).category, VALID_CATEGORIES)

\* C2: categorize returns one of the nine categories of the closed set, for
\* every input and whatever the optional classifier does (not configured,
\* raising, replying with text that is not JSON, with JSON that has no
\* category, or with a category outside the set).
C2_CategoryInClosedSet ==
    op = "categorize" => InSeq(ret.category, VALID_CATEGORIES)

\* C2's case: a configured classifier answered with a category outside the set
C2_Witness ==
    /\ op = "categorize"
    /\ args.client
    /\ ReplyCategoryOutsideSet(args.reply)
    /\ InSeq(ret.category, VALID_CATEGORIES)

\* C3: when the configured classifier fails (raises or times out, replies with
\* text that does not parse as a JSON object, or names a category outside the
\* closed set), categorize returns exactly what _categorize_with_rules returns
\* for the same title, description and venue.
ClassifierFailed(a) ==
    /\ a.client
    /\ \/ a.reply.raises
       \/ ~ReplyIsJsonObject(a.reply)
       \/ ReplyCategoryOutsideSet(a.reply)
C3_FailureFallsBackToRules ==
    (op = "categorize" /\ ClassifierFailed(args))
        => ret = categorize_with_rules(args.title, args.description, args.venue_name)

\* the input events that carry an id
EventsWithId(events, id) == {k \in 1..Len(events) : events[k].id = id}

\* the tag set a record carries: the items of its list, or of the list its
\* JSON text decodes to
CarriedTags(event) ==
    IF event.tags.kind = "list" THEN event.tags.items
    ELSE json_loads_items(event.tags.text, 1, NONE)

\* C4: for every DuplicateMatch that deduplicate_events (find_duplicates)
\* returns, the input events named by canonical_id and by duplicate_id have
\* the same date_start
C4_MatchedEventsShareDate ==
    op = "deduplicate_events" =>
        \A m \in 1..Len(ret.duplicates) :
            \A a \in EventsWithId(args.events, ret.duplicates[m].canonical_id),
               b \in EventsWithId(args.events, ret.duplicates[m].duplicate_id) :
                args.events[a].date_start = args.events[b].date_start

\* a call that returned a match, on a list that also holds two events of
\* different dates whose titles and venues would pass the thresholds
C4_Witness ==
    /\ op = "deduplicate_events"
    /\ ret.duplicates # <<>>
    /\ \E a, b \in 1..Len(args.events) :
          /\ args.events[a].date_start # args.events[b].date_start
          /\ calculate_similarity(args.events[a].title, args.events[b].title)
                >= Points(title_threshold)
          /\ calculate_similarity(args.events[a].location_name, args.events[b].location_name)
                >= Points(location_threshold)

\* C5: no event of the output of deduplicate_events has an id that is the
\* duplicate_id of a returned match
C5_NoDuplicateInOutput ==
    op = "deduplicate_events" =>
        \A k \in 1..Len(ret.events) : ret.events[k].id \notin DuplicateIds(ret.duplicates)

\* a call that returned a match and a non-empty output
C5_Witness ==
    /\ op = "deduplicate_events"
    /\ ret.duplicates # <<>>
    /\ ret.events # <<>>

\* the input events recorded as duplicates of the event with that id
RecordedDuplicates(id) ==
    UNION {EventsWithId(args.events, ret.duplicates[m].duplicate_id) :
              m \in {q \in 1..Len(ret.duplicates) : ret.duplicates[q].canonical_id = id}}

\* C6: every event of the output of deduplicate_events is there once, and
\* its tag set is the union of the tags of the input event and of every
\* input event recorded as its duplicate
C6_OutputIsMergeWithAllDuplicates ==
    op = "deduplicate_events" =>
        \A k \in 1..Len(ret.events) :
            /\ \A j \in 1..Len(ret.events) : ret.events[j].id = ret.events[k].id => j = k
            /\ \E a \in EventsWithId(args.events, ret.events[k].id) :
                  CarriedTags(ret.events[k]) =
                      CarriedTags(args.events[a])
                      \cup UNION {CarriedTags(args.events[b]) :
                                     b \in RecordedDuplicates(ret.events[k].id)}

\* a record holds a non-empty value for a field: a tag, a set flag, a text
\* other than None and '', a number other than None and 0
NonEmpty(event, field) ==
    IF field = "tags" THEN TagSet(event) # {}
    ELSE IF field \in {"has_direct_ticket_button", "is_free", "verified"} THEN event[field]
    ELSE FieldTruthy(event, field)

\* C7: merge_events never loses a non-empty value of the canonical: a field
\* that is non-empty in the canonical is non-empty in the merged record
C7_MergeKeepsNonEmptyFields ==
    op = "merge_events" =>
        \A field \in DOMAIN args.canonical :
            NonEmpty(args.canonical, field) => NonEmpty(ret, field)

\* a merge where the canonical has a ticket_url and the duplicate, which
\* has the direct button, has none
C7_Witness ==
    /\ op = "merge_events"
    /\ NonEmpty(args.canonical, "ticket_url")
    /\ ~args.canonical.has_direct_ticket_button
    /\ args.duplicate.has_direct_ticket_button
    /\ ~NonEmpty(args.duplicate, "ticket_url")
    /\ ret.ticket_url = args.canonical.ticket_url

\* the duplicate brings the direct button that the canonical lacks
DirectTicketWins(canonical, duplicate) ==
    /\ duplicate.has_direct_ticket_button
    /\ NonEmpty(duplicate, "ticket_url")
    /\ ~canonical.has_direct_ticket_button

\* C8, as the specification words it: every field of the canonical other
\* than description and tags that is non-empty before merge_events has the
\* same value after it
C8_NonEmptyFieldsKeepTheirValue ==
    op = "merge_events" =>
        \A field \in (DOMAIN args.canonical) \ {"description", "tags"} :
            NonEmpty(args.canonical, field) => ret[field] = args.canonical[field]

\* C8: every field of the canonical other than description, tags and
\* ticket_url that is non-empty before merge_events has the same value after
\* it; a non-empty ticket_url has the same value too, unless the duplicate
\* has the direct button and a ticket_url and the canonical has no direct
\* button: the merged ticket_url is then the duplicate's
C8_NonEmptyFieldsKeepTheirValueButTicket ==
    op = "merge_events" =>
        \A field \in (DOMAIN args.canonical) \ {"description", "tags"} :
            NonEmpty(args.canonical, field) =>
                IF field = "ticket_url" /\ DirectTicketWins(args.canonical, args.duplicate)
                THEN ret.ticket_url = args.duplicate.ticket_url
                ELSE ret[field] = args.canonical[field]

\* a merge where both sides have an image_url, a price_from and a
\* ticket_url, each different from the other side's, and the duplicate's
\* direct button wins
C8_Witness ==
    /\ op = "merge_events"
    /\ \A field \in {"image_url", "price_from", "ticket_url"} :
          /\ NonEmpty(args.canonical, field)
          /\ NonEmpty(args.duplicate, field)
          /\ args.canonical[field] # args.duplicate[field]
    /\ DirectTicketWins(args.canonical, args.duplicate)
    /\ ret.image_url = args.canonical.image_url
    /\ ret.ticket_url = args.duplicate.ticket_url

\* C9: are_duplicates confirms a match for two events of the same date whose
\* title similarity reaches the title threshold and whose address similarity
\* is above 80, whatever the similarity of their venue names
C9_AddressAgreementConfirms ==
    ( /\ op = "are_duplicates"
      /\ args.event1.date_start = args.event2.date_start
      /\ calculate_similarity(args.event1.title, args.event2.title) >= Points(title_threshold)
      /\ calculate_similarity(args.event1.address, args.event2.address) > Points(80) )
    => ret.is_duplicate

\* C10: every match that find_duplicates returns is between two events whose
\* title similarity is at least title_threshold and, when both have a venue
\* name, whose venue similarity is at least location_threshold
C10_MatchesPassThresholds ==
    op = "deduplicate_events" =>
        \A m \in 1..Len(ret.duplicates) :
            \A a \in EventsWithId(args.events, ret.duplicates[m].canonical_id),
               b \in EventsWithId(args.events, ret.duplicates[m].duplicate_id) :
                /\ calculate_similarity(args.events[a].title, args.events[b].title)
                      >= Points(title_threshold)
                /\ (Truthy(args.events[a].location_name) /\ Truthy(args.events[b].location_name))
                      => calculate_similarity(args.events[a].location_name,
                                              args.events[b].location_name)
                            >= Points(location_threshold)

\* a call that returned a match between two events whose venue names differ
\* and pass the venue threshold, on a list that also holds a pair of the same
\* date below the title threshold
C10_Witness ==
    /\ op = "deduplicate_events"
    /\ \E m \in 1..Len(ret.duplicates) :
          \E a \in EventsWithId(args.events, ret.duplicates[m].canonical_id),
             b \in EventsWithId(args.events, ret.duplicates[m].duplicate_id) :
              /\ Truthy(args.events[a].location_name) /\ Truthy(args.events[b].location_name)
              /\ calculate_similarity(args.events[a].location_name,
                                      args.events[b].location_name) < Points(100)
    /\ \E a, b \in 1..Len(args.events) :
          /\ args.events[a].date_start = args.events[b].date_start
          /\ calculate_similarity(args.events[a].title, args.events[b].title)
                < Points(title_threshold)

\* the same two thresholds on the verdict of are_duplicates itself
VerdictPassesThresholds ==
    (op = "are_duplicates" /\ ret.is_duplicate) =>
        /\ calculate_similarity(args.event1.title, args.event2.title) >= Points(title_threshold)
        /\ (Truthy(args.event1.location_name) /\ Truthy(args.event2.location_name))
              => calculate_similarity(args.event1.location_name, args.event2.location_name)
                    >= Points(location_threshold)

\* C11: every match of find_duplicates is between two input events, the one
\* named canonical having a completeness score at least that of the one
\* named duplicate, and coming earlier in the input list when the two scores
\* are equal
C11_CanonicalScoresHigherOrComesFirst ==
    op = "deduplicate_events" =>
        \A m \in 1..Len(ret.duplicates) :
            \E c \in EventsWithId(args.events, ret.duplicates[m].canonical_id),
               d \in EventsWithId(args.events, ret.duplicates[m].duplicate_id) :
                /\ c # d
                /\ are_duplicates(args.events[c], args.events[d]).is_duplicate
                /\ score_completeness(args.events[c]) >= score_completeness(args.events[d])
                /\ score_completeness(args.events[c]) = score_completeness(args.events[d])
                      => c < d

\* a call that returned a match between two events of different ids and of
\* equal scores, and a match whose canonical comes later in the list than
\* its duplicate
C11_Witness ==
    /\ op = "deduplicate_events"
    /\ \E m \in 1..Len(ret.duplicates) :
          /\ ret.duplicates[m].canonical_id # ret.duplicates[m].duplicate_id
          /\ \A c \in EventsWithId(args.events, ret.duplicates[m].canonical_id),
                d \in EventsWithId(args.events, ret.duplicates[m].duplicate_id) :
                 score_completeness(args.events[c]) = score_completeness(args.events[d])
    /\ \E m \in 1..Len(ret.duplicates) :
          /\ ret.duplicates[m].canonical_id # ret.duplicates[m].duplicate_id
          /\ \A c \in EventsWithId(args.events, ret.duplicates[m].canonical_id),
                d \in EventsWithId(args.events, ret.duplicates[m].duplicate_id) :
                 d < c

\* the lower-cased title + description + venue text of a call of categorize
CallText == Lower(args.title \o " " \o args.description \o " " \o args.venue_name)

\* the number of keywords of the k-th category of the table that occur in a text
Hits(text, k) ==
    Cardinality({j \in 1..Len(CATEGORY_KEYWORDS[k].words) :
                    Contains(text, CATEGORY_KEYWORDS[k].words[j])})

\* C12: with no classifier configured, categorize returns the category with
\* the highest nonzero keyword-hit count over the lower-cased title +
\* description + venue text, the earliest of the table among those tied for
\* the maximum, and 'culture' with no sub-category when no keyword occurs;
\* 'Exposition Monet' resolves to arts_visuels
C12_RulesPickHighestCountFirstOnTie ==
    (op = "categorize" /\ ~args.client) =>
        /\ IF \A k \in 1..Len(CATEGORY_KEYWORDS) : Hits(CallText, k) = 0
           THEN ret = CatResult("culture", NONE)
           ELSE \E k \in 1..Len(CATEGORY_KEYWORDS) :
                   /\ ret.category = CATEGORY_KEYWORDS[k].category
                   /\ Hits(CallText, k) > 0
                   /\ \A j \in 1..Len(CATEGORY_KEYWORDS) :
                         /\ Hits(CallText, j) <= Hits(CallText, k)
                         /\ j < k => Hits(CallText, j) < Hits(CallText, k)
        /\ (args.title = "Exposition Monet" /\ args.description = "" /\ args.venue_name = "Paris")
              => ret.category = "arts_visuels"

\* a call without classifier where two categories tie for the highest count
C12_Witness ==
    /\ op = "categorize"
    /\ ~args.client
    /\ \E k, j \in 1..Len(CATEGORY_KEYWORDS) :
          /\ k < j
          /\ Hits(CallText, k) > 0
          /\ Hits(CallText, k) = Hits(CallText, j)
          /\ \A i \in 1..Len(CATEGORY_KEYWORDS) : Hits(CallText, i) <= Hits(CallText, k)
          /\ ret.category = CATEGORY_KEYWORDS[k].category

\* the amounts of a lower-cased text that a currency tag follows, in cents,
\* from the i-th character on
RECURSIVE TaggedAmounts(_, _)
TaggedAmounts(s, i) ==
    IF i > Len(s) THEN <<>>
    ELSE IF ~IsDigit(CharAt(s, i)) THEN TaggedAmounts(s, i + 1)
    ELSE LET m == PriceMatch(s, i)
         IN  (IF CharAt(s, m.end) \in {"€", "r"} THEN <<m.value>> ELSE <<>>)
             \o TaggedAmounts(s, m.end + 1)

IsLetterOrDigit(c) == IsDigit(c) \/ InSeq(c, LowerChars)

\* a free keyword stands in a lower-cased text as a word: no letter or digit
\* next to it
HasFreeWord(s) ==
    \E k \in 1..Len(free_patterns) :
        \E i \in 1..(Len(s) - Len(free_patterns[k]) + 1) :
            LET j == i + Len(free_patterns[k]) - 1
            IN  /\ SubSeq(s, i, j) = free_patterns[k]
                /\ (i = 1 \/ ~IsLetterOrDigit(CharAt(s, i - 1)))
                /\ (j = Len(s) \/ ~IsLetterOrDigit(CharAt(s, j + 1)))

\* C17: for a price text with two or more currency-tagged positive amounts
\* and no free keyword as a word, parse_price returns the smallest amount,
\* the largest amount and is_free = false; '10€ - 25€' gives (10, 25, False)
C17_PriceRangeIsMinMaxNotFree ==
    (op = "parse_price" /\ args.price_text # NONE) =>
        LET text == Strip(Lower(args.price_text))
            amounts == TaggedAmounts(text, 1)
        IN  ( /\ Len(amounts) >= 2
              /\ \A k \in 1..Len(amounts) : amounts[k] > 0
              /\ ~HasFreeWord(text) )
            => ret = PriceResult(SeqMin(amounts), Num(SeqMax(amounts)), FALSE)

\* the price text '10€ - 25€' alone
PriceRangeExample ==
    (op = "parse_price" /\ args.price_text = "10€ - 25€") => ret = PriceResult(1000, Num(2500), FALSE)

\* the same for the texts where no free keyword occurs at all, not even
\* inside a word or an amount, and where every number has a currency tag
PriceRangeWithoutZeroDigit ==
    (op = "parse_price" /\ args.price_text # NONE) =>
        LET text == Strip(Lower(args.price_text))
            amounts == TaggedAmounts(text, 1)
        IN  ( /\ Len(amounts) >= 2
              /\ amounts = FindPrices(text, 1)
              /\ \A k \in 1..Len(amounts) : amounts[k] > 0
              /\ \A k \in 1..Len(free_patterns) : ~Contains(text, free_patterns[k]) )
            => ret = PriceResult(SeqMin(amounts), Num(SeqMax(amounts)), FALSE)

connectors == {"at", "from", "à", "de", "dès"}

\* the time texts of the calls that are a connector word, one space and a
\* text that starts with a digit, with the connector they start with
ConnectorOf(time_str) ==
    {c \in connectors : /\ StartsWith(time_str, c \o " ")
                        /\ Len(time_str) > Len(c) + 1
                        /\ IsDigit(CharAt(time_str, Len(c) + 2))}

AfterConnector(time_str, c) == SubSeq(time_str, Len(c) + 2, Len(time_str))

\* C18: a leading connector word ('at', 'from', 'à', 'de', 'dès') before a
\* time in an accepted format is ignored: normalize_time returns for the
\* whole text the HH:MM value it returns for the time alone
C18_ConnectorIsIgnored ==
    (op = "normalize_time" /\ args.time_str # NONE) =>
        \A c \in ConnectorOf(args.time_str) :
            normalize_time(AfterConnector(args.time_str, c)) # NONE =>
                ret = normalize_time(AfterConnector(args.time_str, c))

\* the time text 'at 8pm' alone
AtEightPm ==
    (op = "normalize_time" /\ args.time_str = "at 8pm") => ret = "20:00"

\* the same for the connectors other than 'at'
ConnectorIsIgnoredButAt ==
    (op = "normalize_time" /\ args.time_str # NONE) =>
        \A c \in ConnectorOf(args.time_str) \ {"at"} :
            normalize_time(AfterConnector(args.time_str, c)) # NONE =>
                ret = normalize_time(AfterConnector(args.time_str, c))

\* C19: get_time_of_day gives matin for a parsed hour in [6,12), apres_midi
\* in [12,18), soir in [18,23) and nuit for any other hour, whatever the
\* minutes; soir when the time text is absent or cannot be parsed
C19_TimeOfDayBuckets ==
    op = "get_time_of_day" =>
        IF ~Truthy(args.time_str) \/ normalize_time(args.time_str) = NONE
        THEN ret = "soir"
        ELSE LET h == HourOf(normalize_time(args.time_str)) IN
             /\ (6 <= h /\ h < 12) => ret = "matin"
             /\ (12 <= h /\ h < 18) => ret = "apres_midi"
             /\ (18 <= h /\ h < 23) => ret = "soir"
             /\ (h < 6 \/ h >= 23) => ret = "nuit"

C19_Witness ==
    /\ op = "get_time_of_day"
    /\ args.time_str = "from 23:30"
    /\ ret = "nuit"

\* the hour alone decides: two minutes of the same hour, one bucket
HourOnlyDecides ==
    op = "get_time_of_day" =>
        /\ args.time_str = "17h59" => ret = "apres_midi"
        /\ args.time_str = "5h59" => ret = "nuit"
        /\ args.time_str = "11:59" => ret = "matin"
        /\ args.time_str = "22:59" => ret = "soir"

\* the districts named by the postal codes 750NN of an address, NN in 1..20
PostalDistricts(address) ==
    {IntOf(SubSeq(address, i + 3, i + 4)) : i \in
        {i \in 1..(Len(address) - 4) :
            /\ SubSeq(address, i, i + 2) = "750"
            /\ AllDigits(SubSeq(address, i + 3, i + 4))
            /\ IntOf(SubSeq(address, i + 3, i + 4)) \in 1..20}}

\* C20: extract_arrondissement returns None or an integer in 1..20, and for
\* an address that contains a postal code 750NN with NN in 1..20 it returns
\* NN, whatever 'Ne' or 'Paris N' number the address also holds
C20_PostalCodeGivesArrondissement ==
    (op = "extract_arrondissement" /\ args.address # NONE) =>
        /\ ret = NoNum \/ Val(ret) \in 1..20
        /\ \A n \in PostalDistricts(args.address) : ret = Num(n)

\* the result is None or an integer in 1..20
ArrondissementInRange ==
    op = "extract_arrondissement" => (ret = NoNum \/ Val(ret) \in 1..20)

\* the address 'Place de la Bastille, 75012 Paris' gives 12, and a postal
\* code wins over an ordinal or a 'Paris N' that comes before it
BastilleExample ==
    op = "extract_arrondissement" =>
        /\ args.address = "Place de la Bastille, 75012 Paris" => ret = Num(12)
        /\ args.address = "21e étage, 75012 Paris" => ret = Num(12)
        /\ args.address = "3e arr, 75020 Paris" => ret = Num(20)
        /\ args.address = "Paris 5, 75001" => ret = Num(1)

\* a postal code of district 12 after the code 75000
SecondPostalCodeExample ==
    (op = "extract_arrondissement" /\ args.address = "75000, 75012 Paris") => ret = Num(12)

\* C16: for a date text '<day> <French month name> <four-digit year>' that
\* names a valid date, normalize_date returns that date as YYYY-MM-DD
C16_FrenchLongDateIsParsed ==
    (op = "normalize_date" /\ args.date_str # NONE) =>
        \A d \in 1..31, m \in 1..12, y \in 2024..2025 :
            ( /\ args.date_str = DecStr(d) \o " " \o french_month_names[m] \o " " \o DecStr(y)
              /\ d <= DaysInMonth(y, m) )
            => ret = strftime(y, m, d)

\* the date text '15 décembre 2025' alone
DecemberExample ==
    (op = "normalize_date" /\ args.date_str = "15 décembre 2025") => ret = "2025-12-15"

\* what the dates with a French month name give: nothing for a full month
\* name with a four-digit year, the date for a three-letter name with a
\* two-digit year
FrenchDatesParsed ==
    op = "normalize_date" =>
        /\ args.date_str \in LongDateTexts => ret = NONE
        /\ args.date_str = "15 déc 25" => ret = "2025-12-15"
        /\ args.date_str = "15 mai 25" => ret = "2025-05-15"
        /\ args.date_str = "15/12/2025" => ret = "2025-12-15"

\* the record normalize_event returns for the arguments of the call when the
\* clock reads later
NormalizedAt(later) == normalize_event(args.scraped, args.category_override, later)

\* C13: normalize_event is deterministic: the record returned for a
\* ScrapedEvent equals, in every field, the record returned for the same
\* ScrapedEvent at any other moment
C13_NormalizeEventIsDeterministic ==
    op = "normalize_event" => \A later \in Nows : NormalizedAt(later) = ret

\* the fields other than created_at and updated_at are equal at two moments of
\* the same day
SameDaySameFieldsButTimestamps ==
    op = "normalize_event" =>
        \A later \in {now \in Nows : now.date = args.now.date} :
            [NormalizedAt(later) EXCEPT !.created_at = ret.created_at,
                                        !.updated_at = ret.updated_at] = ret

\* C14: the id depends only on the raw posting: the same ScrapedEvent gets
\* the same id on whatever day it is normalized, also when its date text
\* can not be parsed
C14_IdDependsOnlyOnPosting ==
    op = "normalize_event" => \A later \in Nows : EventId(args.scraped, later) = ret.id

\* the id is the same on every day for the events whose date text names its
\* year and is parsed
IdOfParsedDateIsStable ==
    (op = "normalize_event"
        /\ args.scraped.date_start \in {"15/12/2025", "15 déc 25", "2025-02-30", "32/13/2025"})
    => \A later \in Nows : EventId(args.scraped, later) = ret.id

\* 'YYYY-MM-DD' that names a day of the calendar
IsCalendarDate(text) ==
    /\ Len(text) = 10
    /\ AllDigits(SubSeq(text, 1, 4)) /\ CharAt(text, 5) = "-"
    /\ AllDigits(SubSeq(text, 6, 7)) /\ CharAt(text, 8) = "-"
    /\ AllDigits(SubSeq(text, 9, 10))
    /\ IntOf(SubSeq(text, 6, 7)) \in 1..12
    /\ IntOf(SubSeq(text, 9, 10)) >= 1
    /\ IntOf(SubSeq(text, 9, 10))
           <= DaysInMonth(IntOf(SubSeq(text, 1, 4)), IntOf(SubSeq(text, 6, 7)))

\* C15: the date_start of the record is never null and is a valid calendar
\* date YYYY-MM-DD: the parsed date when the date text is recognised, the
\* current processing date otherwise
C15_DateStartIsValidCalendarDate ==
    op = "normalize_event" =>
        /\ ret.date_start # NONE
        /\ IsCalendarDate(ret.date_start)
        /\ LET parsed == normalize_date(args.scraped.date_start,
                                        IntOf(SubSeq(args.now.date, 1, 4)))
           IN  ret.date_start = (IF parsed # NONE THEN parsed ELSE args.now.date)

\* the date_start is never null, and it is the processing date when the date
\* text is not recognised
DateStartIsNeverNull ==
    op = "normalize_event" =>
        /\ Truthy(ret.date_start)
        /\ args.scraped.date_start \in {NONE, "demain", "15 décembre 2025"}
               => ret.date_start = args.now.date

\* a time of day written HH:MM, HH in 00..23 and MM in 00..59
IsTimeOfDay(text) ==
    /\ Len(text) = 5
    /\ CharAt(text, 3) = ":"
    /\ AllDigits(SubSeq(text, 1, 2)) /\ AllDigits(SubSeq(text, 4, 5))
    /\ IntOf(SubSeq(text, 1, 2)) <= 23
    /\ IntOf(SubSeq(text, 4, 5)) <= 59

\* C30: normalize_time returns None or a valid time of day HH:MM, HH in
\* 00..23 and MM in 00..59, for every input text
C30_NormalizeTimeIsValidTime ==
    op = "normalize_time" => (ret = NONE \/ IsTimeOfDay(ret))

\* normalize_time('25h99') = '25:99'
TwentyFiveNinetyNine ==
    (op = "normalize_time" /\ args.time_str = "25h99") => ret = "25:99"

\* normalize_time('13pm') = '25:00'
ThirteenPm ==
    (op = "normalize_time" /\ args.time_str = "13pm") => ret = "25:00"

\* the result always has the shape of HH:MM, and 12am gives 00:MM, 12pm 12:MM
NormalizeTimeShape ==
    op = "normalize_time" =>
        /\ ret # NONE =>
              /\ Len(ret) = 5 /\ CharAt(ret, 3) = ":"
              /\ AllDigits(SubSeq(ret, 1, 2)) /\ AllDigits(SubSeq(ret, 4, 5))
        /\ args.time_str = "12am" => ret = "00:00"
        /\ args.time_str = "12:30am" => ret = "00:30"
        /\ args.time_str = "12pm" => ret = "12:00"

\* the two events of the call have the same date_start, the same non-empty
\* title and the same venue name
SameDateTitleVenue ==
    /\ args.event1.date_start = args.event2.date_start
    /\ args.event1.title = args.event2.title /\ args.event1.title # ""
    /\ args.event1.location_name = args.event2.location_name

\* C29: two events with the same date_start, the same non-empty title and the
\* same venue name are reported as duplicates by are_duplicates, whatever the
\* title and the venue are
C29_SameTitleAndVenueAreDuplicates ==
    (op = "are_duplicates" /\ SameDateTitleVenue) => ret.is_duplicate

\* two postings without a venue get the venue 'Paris' from normalize_event,
\* and are_duplicates answers (False, 100.0, '') for them
VenueParisExample ==
    ( /\ op = "are_duplicates" /\ SameDateTitleVenue
      /\ args.event1.location_name = "Paris" )
    => ret = DupResult(FALSE, Points(100), "")

\* they are reported as duplicates when the stopwords leave something of the
\* title and of the venue
SameTitleAndVenueWithWordsLeft ==
    ( /\ op = "are_duplicates" /\ SameDateTitleVenue
      /\ normalize_for_comparison(args.event1.title) # ""
      /\ \/ args.event1.location_name = ""
         \/ normalize_for_comparison(args.event1.location_name) # "" )
    => ret.is_duplicate

\* is_free implies price_from = 0, for an event dictionary
PriceInvariant(event) == event.is_free => event.price_from = 0

\* C23: when the canonical and the duplicate each satisfy 'is_free implies
\* price_from = 0', the record merge_events returns satisfies it too
C23_MergeKeepsPriceInvariant ==
    ( /\ op = "merge_events"
      /\ PriceInvariant(args.canonical) /\ PriceInvariant(args.duplicate) )
    => PriceInvariant(ret)

\* a free canonical takes the positive price_from of the duplicate and stays
\* free
FreeCanonicalTakesPrice ==
    ( /\ op = "merge_events"
      /\ args.canonical.is_free /\ args.canonical.price_from = 0
      /\ args.duplicate.price_from > 0 )
    => (ret.is_free /\ ret.price_from = args.duplicate.price_from)

\* the merge keeps the invariant when the canonical is not free, and is_free
\* is never changed by it
MergeKeepsPriceInvariantOfPaid ==
    op = "merge_events" =>
        /\ ret.is_free = args.canonical.is_free
        /\ ~args.canonical.is_free => PriceInvariant(ret)

\* C26: the number of events deduplicate_events removes, the length of the
\* input minus the length of the output, equals the number of matches it
\* returns (the count the pipeline logs as duplicates removed)
C26_RemovedCountIsMatchCount ==
    op = "deduplicate_events" =>
        Len(args.events) - Len(ret.events) = Len(ret.duplicates)

\* three postings of one event give three matches and two removed events
ThreeMatchesTwoRemoved ==
    ( /\ op = "deduplicate_events"
      /\ args.events = <<asdict(SunsetListing), asdict(SunsetOfficial), asdict(SunsetAgenda)>> )
    => (Len(ret.duplicates) = 3 /\ Len(ret.events) = 1)

\* the ids of the events of a list, a missing id read as ''
IdsOf(events) == {Get(events[k], "id", "") : k \in 1..Len(events)}

\* the count is right when no event is the duplicate of two matches and no
\* two input events share an id
RemovedCountOfSimpleMatches ==
    ( /\ op = "deduplicate_events"
      /\ Cardinality(IdsOf(args.events)) = Len(args.events)
      /\ Cardinality(DuplicateIds(ret.duplicates)) = Len(ret.duplicates) )
    => Len(args.events) - Len(ret.events) = Len(ret.duplicates)

\* the ids linked to one of the ids of S through at most n returned matches,
\* from duplicate_id to canonical_id
RECURSIVE LinkedIds(_, _, _)
LinkedIds(S, duplicates, n) ==
    IF n = 0 THEN S
    ELSE LinkedIds(S \cup {duplicates[k].duplicate_id :
                              k \in {m \in 1..Len(duplicates) : duplicates[m].canonical_id \in S}},
                   duplicates, n - 1)

\* C27: every input event appears in the output or is linked through a chain
\* of returned matches to an event of the output, and a non-empty input gives
\* a non-empty output
C27_NoGroupIsRemovedWhole ==
    op = "deduplicate_events" =>
        /\ IdsOf(args.events) \subseteq
               LinkedIds(IdsOf(ret.events), ret.duplicates, Len(args.events))
        /\ args.events # <<>> => ret.events # <<>>

\* one posting scraped twice: both copies are removed
SamePostingTwice ==
    ( /\ op = "deduplicate_events"
      /\ args.events = <<asdict(SunsetListing), asdict(SunsetListingAgain)>> )
    => (ret.events = <<>> /\ Len(ret.duplicates) = 1)

\* no group is removed whole when the input events have different ids
NoGroupIsRemovedWholeOfDistinctIds ==
    ( /\ op = "deduplicate_events"
      /\ Cardinality(IdsOf(args.events)) = Len(args.events) )
    => /\ IdsOf(args.events) \subseteq
              LinkedIds(IdsOf(ret.events), ret.duplicates, Len(args.events))
       /\ ret.events # <<>>

\* the tags the events of a list carry
TagsOf(events) == UNION {CarriedTags(events[k]) : k \in 1..Len(events)}

\* C28: every tag carried by an input event appears in the tags of some event
\* of the output, also when the canonical of one match is the duplicate of
\* another match
C28_NoTagIsLost ==
    op = "deduplicate_events" => TagsOf(args.events) \subseteq TagsOf(ret.events)

\* some canonical of a match is the duplicate of another match
CanonicalIsDuplicate(duplicates) ==
    \E m, n \in 1..Len(duplicates) : duplicates[m].canonical_id = duplicates[n].duplicate_id

\* no tag is lost when the tags are lists, the input events have different
\* ids and no canonical is itself a duplicate
NoTagIsLostWithoutChains ==
    ( /\ op = "deduplicate_events" /\ ~args.serialized
      /\ Cardinality(IdsOf(args.events)) = Len(args.events)
      /\ ~CanonicalIsDuplicate(ret.duplicates) )
    => TagsOf(args.events) \subseteq TagsOf(ret.events)

\* C21: deduplicate_events applied to the output of a previous call returns
\* no match and the same events
C21_DeduplicationIsStable ==
    op = "deduplicate_events" =>
        /\ deduplicate_events(ret.events).duplicates = <<>>
        /\ deduplicate_events(ret.events).events = ret.events

\* a call that removed an event and kept another
C21_Witness ==
    /\ op = "deduplicate_events"
    /\ args.events = <<asdict(SunsetListing), asdict(SunsetOfficial), asdict(SunsetNextDay)>>
    /\ Len(ret.duplicates) = 1 /\ Len(ret.events) = 2
    /\ deduplicate_events(ret.events).events = ret.events

\* a canonical that is itself a duplicate is skipped, and the tags of the
\* event merged into it alone are lost with it
TagLostInChain ==
    ( /\ op = "deduplicate_events"
      /\ args.events = <<asdict(SunsetListing), asdict(SunsetClubNight),
                         asdict(SunsetChatelet)>> )
    => /\ Len(ret.duplicates) = 2
       /\ ret.duplicates[1].canonical_id = ret.duplicates[2].duplicate_id
       /\ Len(ret.events) = 1
       /\ TagsOf(ret.events) = {"club", "night"}

\* the ids of the rows of a table
RowIds(table) == {table[k].id : k \in 1..Len(table)}

\* the row carries the values of the upsert of that event
RowCarries(row, event) ==
    \A c \in updated_columns \cup {"id"} : row[c] = unified_to_db(event)[c]

\* the events a finished call upserted, in their order
Upserted(call, arguments) ==
    IF call = "upsert_event" THEN <<arguments.event>> ELSE arguments.events

\* the last of the events with that id
LastWithId(events, id) ==
    events[CHOOSE k \in 1..Len(events) :
              /\ events[k].id = id
              /\ \A m \in (k + 1)..Len(events) : events[m].id # id]

\* what a call of upsert_event or upsert_batch leaves: one row per id, the
\* rows of the upserted ids carrying the values of their last upsert, the
\* other rows as they were; a batch whose ids were all stored adds no row and
\* reports every event as updated
UpsertStep ==
    LET upserted == Upserted(op', args')
        ids == {upserted[k].id : k \in 1..Len(upserted)}
    IN  /\ Cardinality(RowIds(events_table')) = Len(events_table')
        /\ RowIds(events_table') = RowIds(events_table) \cup ids
        /\ \A k \in 1..Len(events_table') :
              IF events_table'[k].id \in ids
              THEN RowCarries(events_table'[k], LastWithId(upserted, events_table'[k].id))
              ELSE events_table'[k] = events_table[k]
        /\ (op' = "upsert_batch" /\ ids \subseteq RowIds(events_table))
              => /\ Len(events_table') = Len(events_table)
                 /\ ret' = [added |-> 0, updated |-> Len(upserted)]

\* C22: after any sequence of upsert_event / upsert_batch calls the events
\* table holds exactly one row per distinct event id, carrying the values of
\* the most recent upsert of that id; upserting a batch that was already
\* stored adds no row and reports every event as updated, none as added
C22_OneRowPerIdWithLatestValues == [][UpsertStep]_vars

\* a batch of two stored events was upserted again: no row added, the row of
\* the rescraped posting carries the new values
C22_Witness ==
    /\ op = "upsert_batch"
    /\ args.events = <<SunsetOfficial, SunsetListingAgain>>
    /\ ret = [added |-> 0, updated |-> 2]
    /\ Len(events_table) = 2
    /\ \E k \in 1..2 : /\ RowCarries(events_table[k], SunsetListingAgain)
                       /\ events_table[k].created_at # events_table[k].updated_at

\* a step of a pipeline constructed with dry_run = True leaves both tables
DryRunStep ==
    pipeline.dry_run => /\ events_table' = events_table
                        /\ scrape_logs' = scrape_logs

\* C24: when IngestionPipeline is run with dry_run = true, no event row is
\* inserted, updated or deleted and no scrape-log row is written: the events
\* and scrape_logs tables are the same after run() as before it
C24_DryRunLeavesTheTables == [][DryRunStep]_vars

\* a dry run has returned with scraped events although saving them would
\* have added a row and the clean-up would have deleted one
C24_Witness ==
    /\ op = "run" /\ pipeline.dry_run
    /\ ret.events_scraped > 0 /\ ret.events_added = 0 /\ ret.events_updated = 0
    /\ SaveAll(events_table, pipeline.all_events, args.now).added > 0
    /\ delete_past_events(events_table, args.now.date).deleted > 0
    /\ scrape_logs = <<>>

\* the source the loop of run() is at
CurrentSource == pipeline.source_list[pipeline.next]

\* a step of the scraping loop: with a source left the next step scrapes it;
\* an exception is recorded in stats['errors'] with its source and the loop
\* goes on to the source after it; the loop ends after the last source, with
\* every source counted as processed or as an error
ScrapingLoopStep ==
    /\ (pipeline.pc = "scrape" /\ pipeline.next <= Len(pipeline.source_list))
          => /\ pipeline'.pc = "scraped"
             /\ pipeline'.next = pipeline.next
             /\ ret' \in ScrapeOutcomes(CurrentSource)
    /\ (pipeline.pc = "scraped" /\ ret.raised)
          => /\ pipeline'.pc = "scrape"
             /\ pipeline'.next = pipeline.next + 1
             /\ pipeline'.stats.errors =
                    Append(pipeline.stats.errors,
                           [source |-> CurrentSource, error |-> ret.error])
             /\ pipeline'.stats.sources_processed = pipeline.stats.sources_processed
    /\ (pipeline.pc = "scrape" /\ pipeline'.pc = "save")
          => /\ pipeline.next = Len(pipeline.source_list) + 1
             /\ pipeline.stats.sources_processed + Len(pipeline.stats.errors)
                    = Len(pipeline.source_list)
             /\ pipeline'.stats.sources_processed + Len(pipeline'.stats.errors)
                    = Len(pipeline'.source_list)

\* C25: in IngestionPipeline.run an exception raised while scraping one
\* source does not stop the run: every later source in the list is still
\* scraped, the failure is recorded in stats['errors'], and when the scraping
\* loop ends sources_processed + len(stats['errors']) equals the number of
\* sources attempted
C25_FailedSourceDoesNotStopTheRun == [][ScrapingLoopStep]_vars

\* the loop has ended after the first of three sources raised: the two later
\* sources were scraped and the events of the last one are in the run
C25_Witness ==
    /\ op \in {"call_run", "run"} /\ pipeline.pc \in {"save", "done"}
    /\ pipeline.source_list = <<"louvre", "nosuch", "sortiraparis">>
    /\ pipeline.stats.errors = <<[source |-> "louvre", error |-> "scrape failed"]>>
    /\ pipeline.stats.sources_processed = 2
    /\ pipeline.stats.events_scraped = 1

====
